---- MODULE Spec2Model ----
(***************************************************************************)
(* A model of the open-images-starter data model and loader:               *)
(*   tools/util/region.py      Region (self-calibrating rectangle)         *)
(*   modules/detect_region.py  DetectRegion (Region + detection meta-data) *)
(*   modules/sample.py         Sample (key, remote path, regions)          *)
(*   modules/loader.py         Loader (CSV ingestion, association, export) *)
(*                                                                         *)
(* Numbers.  A Region holds Python ints (force_int) or floats.  Every      *)
(* number of the model is a fixed-point value counted in halves: the       *)
(* integer n stands for the Python number n / 2 (3 is 1.5, -4 is -2).      *)
(* Sums and differences of such values are exact in Python's floats, so    *)
(* the model's integer arithmetic is the program's arithmetic.             *)
(***************************************************************************)
EXTENDS Integers, Sequences, FiniteSets, TLC

VARIABLES
    region,      \* SpecRegion: the eight stored values of one Region and its force_int mode
    call,        \* Region: the mutator called last, and for set_rect whether its arguments were ordered
    raised,      \* SpecRegion: the error the last mutator call raised ("" when it returned)
    pc,          \* loader: position of the cmd_create_samples pipeline
    indexRows,   \* loader: rows of the image-index CSV read so far
    gtRows,      \* loader: rows of the ground-truth CSV read so far
    samples,     \* loader: the Dict[str, Sample] of create_samples: insertion order and key -> Sample id
    objs,        \* heap of Sample objects, id = position
    lists,       \* heap of Python list objects (detect_regions), id = position
    regs,        \* heap of DetectRegion objects, id = position
    size,        \* export_samples: the size argument
    i,           \* export_samples: the loop index i
    files,       \* the samples directory: file index n (sample_set_<n>.json) -> parsed JSON content
    loaded,      \* load_sample_set_from_file: the returned list of Sample ids
    loadedFrom,  \* load_sample_set_from_file: index of the file loaded last (-1: none yet)
    det,         \* DetectRegion: one DetectRegion object
    back,        \* DetectRegion: what DetectRegion.decode returned last (None before, and after det changed)
    detRaised,   \* DetectRegion: the error DetectRegion.decode raised last ("" if it returned)
    rheap,       \* clone: heap of Region objects, id = position; the original is object 1
    cloneId,     \* clone: id of the object clone() returned (0 before clone())
    cloneSteps,  \* clone: number of mutator calls on the original before clone(), then of calls since clone() returned
    cloneRef,    \* clone: the reference the last mutator was called through ("original" or "clone")
    cloneRaised, \* clone: the error clone() raised ("" if none)
    smp,         \* Sample: one Sample object: key, set_index and _local_path
    storage,     \* Sample: the image storage: path -> "file" or "dir", for the paths that exist
    sres,        \* Sample: the last operation on the Sample or the storage, and what it returned
    ld,          \* Sample: how far a load() under way has come, whether the Sample was locally loaded when it was called, and whether another process changed the storage since
    max_threads, \* download: the --max_threads argument
    resident,    \* download: is_locally_loaded of each Sample of the loaded list, by position, when the list was read
    unloaded_samples, \* download: the list unloaded_samples (positions of Samples in the loaded list)
    cursor,      \* download: how many Samples of unloaded_samples the for loop is done with
    mainpc,      \* download: position of the main thread: "check" (line 55), "sleep" (line 60), "done"
    threads,     \* download: the worker threads started, in order: the target Sample and "alive", "complete" or "caught"
    cl,          \* check_and_load: its position, whether the file exists and existed at the call, remote_url, the answers given and how the call ended
    rd           \* SpecRederive: the stage of the call sequence, its arguments, the Region set_rect left and the Region before expand_to_ratio

regionVars == <<region, raised, call>>
loaderVars == <<pc, indexRows, gtRows, samples, objs, lists, regs, size, i, files, loaded, loadedFrom>>
\* What the loader's steps and the Region's steps leave alone.
detectVars == <<det, back, detRaised>>
cloneVars == <<rheap, cloneId, cloneSteps, cloneRef, cloneRaised>>
sampleVars == <<smp, storage, sres, ld>>
rederiveVars == <<rd>>
notCheckLoadVars == <<regionVars, loaderVars, detectVars, cloneVars, sampleVars, rederiveVars,
                      max_threads, resident, unloaded_samples, cursor, mainpc, threads>>
checkLoadVars == <<cl>>
notDownloadVars == <<regionVars, loaderVars, detectVars, cloneVars, sampleVars, rederiveVars, checkLoadVars>>
downloadVars == <<max_threads, resident, unloaded_samples, cursor, mainpc, threads>>
notLoaderVars == <<regionVars, detectVars, cloneVars, sampleVars, rederiveVars, downloadVars, checkLoadVars>>
notRegionVars == <<loaderVars, detectVars, cloneVars, sampleVars, rederiveVars, downloadVars, checkLoadVars>>
notDetectVars == <<regionVars, loaderVars, cloneVars, sampleVars, rederiveVars, downloadVars, checkLoadVars>>
notCloneVars == <<regionVars, loaderVars, detectVars, sampleVars, rederiveVars, downloadVars, checkLoadVars>>
notSampleVars == <<regionVars, loaderVars, detectVars, cloneVars, rederiveVars, downloadVars, checkLoadVars>>
vars == <<region, raised, call, pc, indexRows, gtRows, samples, objs, lists, regs, size, i, files,
          loaded, loadedFrom, det, back, detRaised, rheap, cloneId, cloneSteps, cloneRef,
          cloneRaised, smp, storage, sres, ld, rd, max_threads, resident, unloaded_samples, cursor,
          mainpc, threads, cl>>

----------------------------------------------------------------------------
(* Bounds of the model. *)

\* Horizontal arguments of the Region mutators (left, right, x, width) range over
\* -MaxCoord..MaxCoord halves.
MaxCoord == 2
\* Vertical arguments (top, bottom, y, height) range over 0..MaxCoordY halves: the code
\* treats the two axes alike and independently, so the vertical axis is kept small.
MaxCoordY == 1
\* scale factors range over -1..MaxScale halves, aspect ratios over 1..MaxScale halves.
MaxScale == 2
\* A mutator is explored only while every stored value stays within -MaxAbs..MaxAbs halves.
MaxAbs == 4

----------------------------------------------------------------------------
(* Python arithmetic on fixed-point halves. *)

\* int(v): truncation toward zero, as a value in halves.
ToInt(v) == IF v >= 0 THEN 2 * (v \div 2) ELSE -(2 * ((-v) \div 2))

\* v // 2: floor of half the value (an int for ints, a whole float for floats).
FloorHalf(v) == 2 * (v \div 4)

\* a // b for b # 0: floor of the quotient, as a value in halves.
FloorDiv(a, b) == IF b > 0 THEN 2 * (a \div b) ELSE 2 * ((-a) \div (-b))

\* int(a * b): the product of two values in halves, truncated toward zero.
IntMul(a, b) == IF a * b >= 0 THEN 2 * ((a * b) \div 4) ELSE -(2 * ((-(a * b)) \div 4))

----------------------------------------------------------------------------
(* tools/util/region.py: Region *)

\* Region.convert_to_int: all eight stored values through int().
convert_to_int(r) ==
    [r EXCEPT !.width = ToInt(r.width), !.height = ToInt(r.height),
              !.left = ToInt(r.left), !.right = ToInt(r.right),
              !.top = ToInt(r.top), !.bottom = ToInt(r.bottom),
              !.x = ToInt(r.x), !.y = ToInt(r.y)]

\* Region._calibrate_to_rect: size and centre recomputed from the edges.
calibrate_to_rect(r0) ==
    LET r == IF r0.force_int THEN convert_to_int(r0) ELSE r0
        w == r.right - r.left
        h == r.bottom - r.top
    IN  [r EXCEPT !.width = w, !.height = h,
                  !.x = r.left + FloorHalf(w), !.y = r.top + FloorHalf(h)]

\* Mutant: _calibrate_to_xy also resets the size to what the new edges span.
calibrate_to_xy_resized(r0) ==
    LET r == IF r0.force_int THEN convert_to_int(r0) ELSE r0
        half_width == FloorHalf(r.width)
        half_height == FloorHalf(r.height)
    IN  [r EXCEPT !.left = r.x - half_width, !.right = r.x + half_width,
                  !.top = r.y - half_height, !.bottom = r.y + half_height,
                  !.width = 2 * half_width, !.height = 2 * half_height]

\* Region._calibrate_to_xy: edges recomputed from the centre and the size.
calibrate_to_xy(r0) ==
    LET r == IF r0.force_int THEN convert_to_int(r0) ELSE r0
        half_width == FloorHalf(r.width)
        half_height == FloorHalf(r.height)
    IN  [r EXCEPT !.left = r.x - half_width, !.right = r.x + half_width,
                  !.top = r.y - half_height, !.bottom = r.y + half_height]

\* Region.__init__ before its set_rect call: every value 0.
NewRegion(force_int) ==
    [left |-> 0, right |-> 0, top |-> 0, bottom |-> 0,
     x |-> 0, y |-> 0, width |-> 0, height |-> 0, force_int |-> force_int]

\* Mutant: set_rect checks the horizontal bounds only.
set_rect_raises_horizontal(left, right, top, bottom) == right < left

\* Region.set_rect raises when right < left or bottom < top.
set_rect_raises(left, right, top, bottom) == right < left \/ bottom < top

\* Region.set_rect when it does not raise.
set_rect(r, left, right, top, bottom) ==
    calibrate_to_rect([r EXCEPT !.left = left, !.right = right, !.top = top, !.bottom = bottom])

\* Region.set_xy; an argument is <<v>>, or <<>> for None (omitted).
set_xy(r, x, y) ==
    LET r1 == IF x # <<>> THEN [r EXCEPT !.x = x[1]] ELSE r
        r2 == IF y # <<>> THEN [r1 EXCEPT !.y = y[1]] ELSE r1
    IN  calibrate_to_xy(r2)

\* Region.set_size.
set_size(r, width, height) == calibrate_to_xy([r EXCEPT !.width = width, !.height = height])

\* The property setters.
set_x(r, value) == calibrate_to_xy([r EXCEPT !.x = value])
set_y(r, value) == calibrate_to_xy([r EXCEPT !.y = value])
set_left(r, value) == calibrate_to_rect([r EXCEPT !.left = value])
set_right(r, value) == calibrate_to_rect([r EXCEPT !.right = value])
set_top(r, value) == calibrate_to_rect([r EXCEPT !.top = value])
set_bottom(r, value) == calibrate_to_rect([r EXCEPT !.bottom = value])
set_width(r, value) == calibrate_to_xy([r EXCEPT !.width = value])
set_height(r, value) == calibrate_to_xy([r EXCEPT !.height = value])

\* Mutant: the two tests of expand_to_ratio made independently (if, if) on the values
\* read at entry.
expand_to_ratio_both(r, aspect_ratio) ==
    LET aspect_width == FloorDiv(r.height, aspect_ratio)
        aspect_height == FloorDiv(r.width, aspect_ratio)
        r1 == IF aspect_width > r.width THEN set_width(r, ToInt(aspect_width)) ELSE r
    IN  IF aspect_height > r.height THEN set_height(r1, ToInt(aspect_height)) ELSE r1

\* Region.expand_to_ratio for aspect_ratio # 0.
expand_to_ratio(r, aspect_ratio) ==
    LET aspect_width == FloorDiv(r.height, aspect_ratio)
        aspect_height == FloorDiv(r.width, aspect_ratio)
    IN  IF aspect_width > r.width THEN set_width(r, ToInt(aspect_width))
        ELSE IF aspect_height > r.height THEN set_height(r, ToInt(aspect_height))
        ELSE r

\* Region.scale: the width setter, then the height setter.
scale(r, scale_value) ==
    LET r1 == set_width(r, IntMul(r.width, scale_value))
    IN  set_height(r1, IntMul(r1.height, scale_value))

\* Region.clone raises when its set_rect call does.
clone_raises(r) == set_rect_raises(r.left, r.right, r.top, r.bottom)

\* Region.clone when it does not raise: Region(force_int=...), then set_rect with the
\* four edges of the original.
clone(r) ==
    set_rect(set_rect(NewRegion(r.force_int), 0, 0, 0, 0), r.left, r.right, r.top, r.bottom)

\* Mutant: clone returns the object it was called on (return self).
CloneObjectSelf(heap, id) == id

\* The object Region.clone returns: a new object, allocated at the end of the heap.
CloneObject(heap, id) == Len(heap) + 1

----------------------------------------------------------------------------
(* modules/detect_region.py: DetectRegion *)

\* Optional values: <<>> is Python's None, <<v>> the value v.
None == <<>>
Some(v) == <<v>>

\* DetectRegion.__init__: a Region (set_rect on zeros) plus the detection meta-data
\* defaults: class_id None, confidence 1.0 (2 halves), the five flags 0.
NewDetectRegion(force_int) ==
    LET r == set_rect(NewRegion(force_int), 0, 0, 0, 0)
    IN  [left |-> r.left, right |-> r.right, top |-> r.top, bottom |-> r.bottom,
         x |-> r.x, y |-> r.y, width |-> r.width, height |-> r.height,
         force_int |-> r.force_int,
         class_id |-> None, confidence |-> 2,
         is_occluded |-> 0, is_truncated |-> 0, is_group_of |-> 0,
         is_depiction |-> 0, is_inside |-> 0]

\* The values of a mapping such as encode returns and json.load reads: a number (in
\* halves), a string, or None (JSON null).
NumValue(v) == [t |-> "number", v |-> v]
StrValue(s) == [t |-> "str", s |-> s]
NoneValue == [t |-> "None"]

\* The five flags, the four edges plus confidence, and the 11 fields of the mapping.
FlagNames == {"is_occluded", "is_truncated", "is_group_of", "is_depiction", "is_inside"}
FloatNames == {"left", "right", "top", "bottom", "confidence"}
EncodedFields == FloatNames \cup FlagNames \cup {"class_id"}

\* DetectRegion.encode: the flat mapping of the 11 fields.
EncodeRegion(r) ==
    [f \in EncodedFields |->
        IF f = "class_id"
        THEN IF r.class_id = None THEN NoneValue ELSE StrValue(r.class_id[1])
        ELSE NumValue(r[f])]

\* What an expression evaluates to: a value, or an exception raised.
Value(v) == [ok |-> TRUE, v |-> v]
Raise == [ok |-> FALSE]

\* The texts float() parses, and the number (in halves) a text stands for.
IsFloatText(text) == text \in {"0.5", "1"}
IsIntegerText(text) == text = "1"
NumberOfText(text) == IF text = "0.5" THEN 1 ELSE 2

\* data[key]: KeyError when the mapping has no such key.
Item(data, key) == IF key \in DOMAIN data THEN Value(data[key]) ELSE Raise

\* Mutant: None read as zero (float(v or 0)).
FloatOrZero(v) ==
    CASE v.t = "number" -> Value(v.v)
      [] v.t = "str" /\ IsFloatText(v.s) -> Value(NumberOfText(v.s))
      [] v.t = "None" -> Value(0)
      [] OTHER -> Raise

\* float(v): a number, or the number a text stands for; ValueError for another text,
\* TypeError for None.
FloatOf(v) ==
    CASE v.t = "number" -> Value(v.v)
      [] v.t = "str" /\ IsFloatText(v.s) -> Value(NumberOfText(v.s))
      [] OTHER -> Raise

\* int(v): a number truncated toward zero, or the integer a text stands for;
\* ValueError for another text (such as "0.5"), TypeError for None.
IntOf(v) ==
    CASE v.t = "number" -> Value(ToInt(v.v))
      [] v.t = "str" /\ IsIntegerText(v.s) -> Value(NumberOfText(v.s))
      [] OTHER -> Raise

\* repr of a float of 0.0 .. 2.0 (in halves).
FloatText(v) ==
    CASE v = 0 -> "0.0" [] v = 1 -> "0.5" [] v = 2 -> "1.0" [] v = 3 -> "1.5" [] v = 4 -> "2.0"

\* str(v) of a class_id: a string is itself, None becomes the text "None", a number
\* its repr.
Str(v) ==
    CASE v.t = "None" -> Value(Some("None"))
      [] v.t = "number" -> Value(Some(FloatText(v.v)))
      [] OTHER -> Value(Some(v.s))

\* DetectRegion.decode, lines 45-55: the right-hand side of the assignment to a field.
Coerce(data, f) ==
    LET item == Item(data, f)
    IN  IF ~item.ok THEN Raise
        ELSE IF f \in FloatNames THEN FloatOf(item.v)
        ELSE IF f \in FlagNames THEN IntOf(item.v)
        ELSE Str(item.v)

\* DetectRegion.decode raises when one of its 11 right-hand sides does.
DecodeRaises(data) == \E f \in EncodedFields : ~Coerce(data, f).ok

\* Mutant: decode constructs its region with the default force_int=True.
DecodeForceIntDefault == TRUE

\* The force_int mode DetectRegion.decode constructs its region with.
DecodeForceInt == FALSE

\* DetectRegion.decode when it does not raise: a DetectRegion(force_int=False), then
\* the left, right, top and bottom setters in this order (each recalibrates, none
\* validates), then the meta-data.
DecodeRegion(data) ==
    LET r0 == NewDetectRegion(DecodeForceInt)
        r1 == set_left(r0, Coerce(data, "left").v)
        r2 == set_right(r1, Coerce(data, "right").v)
        r3 == set_top(r2, Coerce(data, "top").v)
        r4 == set_bottom(r3, Coerce(data, "bottom").v)
    IN  [r4 EXCEPT !.class_id = Coerce(data, "class_id").v,
                   !.confidence = Coerce(data, "confidence").v,
                   !.is_occluded = Coerce(data, "is_occluded").v,
                   !.is_truncated = Coerce(data, "is_truncated").v,
                   !.is_group_of = Coerce(data, "is_group_of").v,
                   !.is_depiction = Coerce(data, "is_depiction").v,
                   !.is_inside = Coerce(data, "is_inside").v]

----------------------------------------------------------------------------
(* modules/sample.py: Sample.  Sample, list and DetectRegion objects live in  *)
(* the heaps objs, lists and regs; an object's identity is its position.      *)

\* Mutant: detect_regions bound to one list shared by every Sample (a class-level
\* or default-argument list).
NewListIdShared(ls) == 1

\* The list object Sample.__init__ binds to detect_regions: a new, empty list,
\* allocated at the end of the list heap.
NewListId(ls) == Len(ls) + 1

\* Sample.__init__: key "", set_index None, remote_path "", detect_regions = [].
NewSample(ls) ==
    [key |-> <<>>, set_index |-> None, remote_path |-> <<>>, detect_regions |-> NewListId(ls)]

\* Sample.encode: key, remote_path and the encoded regions; set_index is not written.
EncodeSample(o, ls, rs) ==
    [key |-> o.key, remote_path |-> o.remote_path,
     detect_regions |-> [k \in 1..Len(ls[o.detect_regions]) |->
                            EncodeRegion(rs[ls[o.detect_regions][k]])]]

\* Sample.__init__ as far as the image path is concerned: key "", set_index None and
\* no cached path.
NewSampleObject == [key |-> "", set_index |-> None, local_path |-> None]

\* os.path.join(get_set_path(set_index), f"{key}.jpg"): the path is told by the set
\* index (None gives the directory set_None) and the key.
ImagePath(set_index, key) == <<set_index, key>>

\* Sample._local_image_path: the value returned, and the Sample afterwards: the path is
\* built on the first use and kept in _local_path.
local_image_path(s) ==
    IF s.local_path = None THEN ImagePath(s.set_index, s.key) ELSE s.local_path[1]
CachePath(s) == [s EXCEPT !.local_path = Some(local_image_path(s))]

\* Sample.is_locally_loaded: os.path.exists(self._local_image_path).
is_locally_loaded(s, f) == local_image_path(s) \in DOMAIN f

\* The storage f with path as a file or a directory.
WithPath(f, path, kind) == [q \in DOMAIN f \cup {path} |-> IF q = path THEN kind ELSE f[q]]

\* pather.create(path): the directories above the path are made; the last component
\* is made a directory too when it has no extension, which is so for ".jpg" (key "").
pather_create(f, path) ==
    IF path[2] = "" /\ path \notin DOMAIN f THEN WithPath(f, path, "dir") ELSE f

----------------------------------------------------------------------------
(* modules/loader.py: Loader *)

\* Inputs.  File names and keys are sequences of characters.
\* Image-index file names read under SpecLoader: a.j and a.p share the key a.
LoaderNames == { <<"a", ".", "j">>, <<"a", ".", "p">>, <<"b", ".", "j">>,
                 <<"c", ".", "x", ".", "j">> }

\* Image-index file names read under SpecExport: five distinct keys a, b, c, d, e.
ExportNames == LoaderNames \cup { <<"d">>, <<"e", ".", "j">> }

\* The URL column of an image-index row: the remote location of that file.
UrlOf(name) == <<"u", "/">> \o name

\* One row of the image-index CSV: col0 = file name, col1 = URL (1-based here).
IndexRow(name) == <<name, UrlOf(name)>>

\* One row of the ground-truth CSV, 13 columns: col0 image id, col1 unused, col2
\* class id, col3 confidence, col4..7 x_min, x_max, y_min, y_max, col8..12 the flags.
\* The text of a numeric column is NumValue(v) when it is the literal of the number v
\* (in halves), and StrValue(s) when it is another text s.
GtRow(key, class_id, confidence, x_min, x_max, y_min, y_max, flags) ==
    <<key, <<"s">>, class_id, NumValue(confidence), NumValue(x_min), NumValue(x_max),
      NumValue(y_min), NumValue(y_max)>> \o [k \in 1..Len(flags) |-> NumValue(flags[k])]

\* A row with another text in column k (0-based), and a row cut to its first n columns.
WithText(row, k, text) == [row EXCEPT ![k + 1] = StrValue(text)]
CutTo(row, n) == SubSeq(row, 1, n)

\* The ground-truth rows read: two for key a, one for b, one for a key no index row
\* produces, one for key a whose x_max is less than its x_min, and four more for key a:
\* with a text that is no number as y_min, with the text 0.5 as a flag, with a word as
\* confidence, and with the last column missing.
GtRowPool ==
    { GtRow(<<"a">>, "/m/dog", 1, 0, 1, 1, 2, <<2, 0, 0, 0, 0>>),
      GtRow(<<"a">>, "/m/cat", 2, 1, 2, 0, 2, <<0, 2, 0, 0, 2>>),
      GtRow(<<"b">>, "/m/dog", 2, 0, 2, 0, 1, <<0, 0, 2, 2, 0>>),
      GtRow(<<"z">>, "/m/cat", 2, 0, 1, 0, 1, <<0, 0, 0, 0, 0>>),
      GtRow(<<"a">>, "/m/cat", 2, 2, 1, 0, 1, <<0, 0, 0, 0, 0>>),
      WithText(GtRow(<<"a">>, "/m/dog", 2, 0, 1, 0, 1, <<0, 0, 0, 0, 0>>), 6, "abc"),
      GtRow(<<"a">>, "/m/dog", 2, 0, 1, 0, 1, <<0, 0, 1, 0, 0>>),
      WithText(GtRow(<<"a">>, "/m/dog", 2, 0, 1, 0, 1, <<0, 0, 0, 0, 0>>), 3, "abc"),
      CutTo(GtRow(<<"a">>, "/m/dog", 2, 0, 1, 0, 1, <<0, 0, 0, 0, 0>>), 12) }

\* row[k] of a CSV row, 0-based as in the code.
Col(row, k) == row[k + 1]

\* s.split(".")[0]: the characters before the first ".", all of s when it has none.
SplitFirst(s) ==
    LET dots == {k \in 1..Len(s) : s[k] = "."}
    IN  IF dots = {} THEN s
        ELSE SubSeq(s, 1, (CHOOSE k \in dots : \A j \in dots : k <= j) - 1)

\* A Python dict: the keys in insertion order and the value of each key.
EmptyDict == [order |-> <<>>, at |-> <<>>]

\* key in d
HasKey(d, key) == key \in DOMAIN d.at

\* Mutant: a known key keeps its first value (d.setdefault(key, value)).
DictSetKeepFirst(d, key, value) ==
    [order |-> IF HasKey(d, key) THEN d.order ELSE Append(d.order, key),
     at |-> [k \in DOMAIN d.at \cup {key} |-> IF k \in DOMAIN d.at THEN d.at[k] ELSE value]]

\* d[key] = value: a new key is appended to the order, a known key keeps its place.
DictSet(d, key, value) ==
    [order |-> IF HasKey(d, key) THEN d.order ELSE Append(d.order, key),
     at |-> [k \in DOMAIN d.at \cup {key} |-> IF k = key THEN value ELSE d.at[k]]]

\* list(d.values())
DictValues(d) == [k \in 1..Len(d.order) |-> d.at[d.order[k]]]

\* create_samples.action: the Sample built from one image-index row.
SampleFromRow(row, ls) ==
    [NewSample(ls) EXCEPT !.key = SplitFirst(Col(row, 0)), !.remote_path = Col(row, 1)]

\* Mutant: the image id read from column 1 instead of column 0.
RowKeyNextColumn(row) == Col(row, 1)

\* associate_boxes_with_samples.action, line 94: the column holding the image id.
RowKey(row) == Col(row, 0)

\* Mutant: no membership test before samples[key], which raises KeyError.
LookupUnchecked(d, key) == IF HasKey(d, key) THEN "found" ELSE "KeyError"

\* associate_boxes_with_samples.action, lines 95-96: what the lookup of the row's key
\* does: "skip" (return) when the key is no key of the mapping, else "found".
Lookup(d, key) == IF HasKey(d, key) THEN "found" ELSE "skip"

\* int(text) of a CSV column: the number when the text is an integer literal; int()
\* of any other text (such as "0.5" or a word) raises ValueError.
IntOfText(c) ==
    CASE c.t = "number" /\ c.v % 2 = 0 -> Value(c.v)
      [] c.t = "str" /\ IsIntegerText(c.s) -> Value(NumberOfText(c.s))
      [] OTHER -> Raise

\* float(row[k]) and int(row[k]): IndexError when the row has no column k.
RowFloat(row, k) == IF k + 1 <= Len(row) THEN FloatOf(Col(row, k)) ELSE Raise
RowInt(row, k) == IF k + 1 <= Len(row) THEN IntOfText(Col(row, k)) ELSE Raise

\* associate_boxes_with_samples.action, lines 100-113: the row raises: in the float()
\* of a bound, in set_rect (x_max < x_min or y_max < y_min), in row[2], in the float()
\* of the confidence or in the int() of a flag.
RowRaises(row) ==
    IF \E k \in 4..7 : ~RowFloat(row, k).ok THEN TRUE
    ELSE \/ set_rect_raises(RowFloat(row, 4).v, RowFloat(row, 5).v,
                            RowFloat(row, 6).v, RowFloat(row, 7).v)
         \/ ~RowFloat(row, 3).ok
         \/ \E k \in 8..12 : ~RowInt(row, k).ok

\* Mutant: the columns handed to set_rect in CSV order (x_min, x_max, y_min, y_max
\* read as left, top, right, bottom).
RegionFromRowSwapped(row) ==
    LET r == set_rect(NewDetectRegion(FALSE), RowFloat(row, 4).v, RowFloat(row, 6).v,
                      RowFloat(row, 5).v, RowFloat(row, 7).v)
    IN  [r EXCEPT !.class_id = Some(Col(row, 2)),
                  !.confidence = RowFloat(row, 3).v,
                  !.is_occluded = RowInt(row, 8).v,
                  !.is_truncated = RowInt(row, 9).v,
                  !.is_group_of = RowInt(row, 10).v,
                  !.is_depiction = RowInt(row, 11).v,
                  !.is_inside = RowInt(row, 12).v]

\* associate_boxes_with_samples.action, lines 100-113: the DetectRegion of one row.
RegionFromRow(row) ==
    LET x_min == RowFloat(row, 4).v
        x_max == RowFloat(row, 5).v
        y_min == RowFloat(row, 6).v
        y_max == RowFloat(row, 7).v
        r == set_rect(NewDetectRegion(FALSE), x_min, x_max, y_min, y_max)
    IN  [r EXCEPT !.class_id = Some(Col(row, 2)),
                  !.confidence = RowFloat(row, 3).v,
                  !.is_occluded = RowInt(row, 8).v,
                  !.is_truncated = RowInt(row, 9).v,
                  !.is_group_of = RowInt(row, 10).v,
                  !.is_depiction = RowInt(row, 11).v,
                  !.is_inside = RowInt(row, 12).v]

\* Mutant: the region is appended as soon as it is constructed (line 105), before its
\* fields are set, so that a row that raises leaves it in the list.
RowOutcomeAppendFirst(row, ls, rs, listId) ==
    [raised |-> RowRaises(row),
     regs |-> Append(rs, IF RowRaises(row) THEN NewDetectRegion(FALSE) ELSE RegionFromRow(row)),
     lists |-> [ls EXCEPT ![listId] = Append(@, Len(rs) + 1)]]

\* associate_boxes_with_samples.action, lines 100-115, on a row of a known key whose
\* Sample holds the list listId: whether it raises, and the region and list heaps
\* afterwards.  The append is the last statement: a row that raises appends nothing.
RowOutcome(row, ls, rs, listId) ==
    IF RowRaises(row)
    THEN [raised |-> TRUE, regs |-> rs, lists |-> ls]
    ELSE [raised |-> FALSE,
          regs |-> Append(rs, RegionFromRow(row)),
          lists |-> [ls EXCEPT ![listId] = Append(@, Len(rs) + 1)]]

\* Mutant: the loop leaves one pass early, when (i + 2) * size >= n_samples.
ExportBreaksEarly(idx, sz, n_samples) == (idx + 2) * sz >= n_samples

\* Mutant: the loop leaves only when m > n_samples, writing a full last chunk.
ExportBreaksStrict(idx, sz, n_samples) == (idx + 1) * sz > n_samples

\* Mutant: the loop leaves when no sample is left, writing a partial last chunk.
ExportBreaksAtEnd(idx, sz, n_samples) == idx * sz >= n_samples

\* export_samples, lines 126-127: the loop leaves when m = (i + 1) * size >= n_samples.
ExportBreaks(idx, sz, n_samples) == (idx + 1) * sz >= n_samples

\* Mutant: the slice taken from the start of the list, sample_list[:m].
ExportSliceFromStart(sample_list, idx, sz) ==
    LET m == (idx + 1) * sz
        hi == IF m < Len(sample_list) THEN m ELSE Len(sample_list)
    IN  SubSeq(sample_list, 1, hi)

\* export_samples, line 131: sample_list[i * size:m] with m = (i + 1) * size
\* (Python's 0-based half-open slice, cut to the list).
ExportSlice(sample_list, idx, sz) ==
    LET m == (idx + 1) * sz
        hi == IF m < Len(sample_list) THEN m ELSE Len(sample_list)
    IN  SubSeq(sample_list, idx * sz + 1, hi)

\* Mutant: the stored set_index counted from 1.
WriteSamplesOneBased(sub_samples, index, os, ls, rs) ==
    [set_index |-> index + 1,
     samples |-> [k \in 1..Len(sub_samples) |-> EncodeSample(os[sub_samples[k]], ls, rs)]]

\* _write_samples: the JSON document written to sample_set_<index>.json.
WriteSamples(sub_samples, index, os, ls, rs) ==
    [set_index |-> index,
     samples |-> [k \in 1..Len(sub_samples) |-> EncodeSample(os[sub_samples[k]], ls, rs)]]

----------------------------------------------------------------------------
(* SpecRegion: one Region under every sequence of its mutators. *)

Coords == (-MaxCoord)..MaxCoord
CoordsY == 0..MaxCoordY
ScaleValues == (-1)..MaxScale
Ratios == 1..MaxScale

\* The stored values the exploration is cut to.
InRange(r) ==
    \A f \in {"left", "right", "top", "bottom", "x", "y", "width", "height"} :
        r[f] \in (-MaxAbs)..MaxAbs

\* A call of set_rect, whose arguments are ordered (right >= left and bottom >= top)
\* or not, and a call of any other mutator.
SetRectCall(left, right, top, bottom) ==
    [name |-> "set_rect", ordered |-> right >= left /\ bottom >= top]
OtherCall == [name |-> "other", ordered |-> TRUE]

\* A mutator call that returned, leaving the Region as r.
Returned(r, c) ==
    /\ InRange(r)
    /\ region' = r
    /\ raised' = ""
    /\ call' = c
    /\ UNCHANGED notRegionVars

\* A mutator call that raised before any assignment.
Raised(error, c) ==
    /\ raised' = error
    /\ call' = c
    /\ UNCHANGED <<region, notRegionVars>>

SetRect ==
    \E left \in Coords, right \in Coords, top \in CoordsY, bottom \in CoordsY :
        IF set_rect_raises(left, right, top, bottom)
        THEN Raised("Invalid Input", SetRectCall(left, right, top, bottom))
        ELSE Returned(set_rect(region, left, right, top, bottom),
                      SetRectCall(left, right, top, bottom))

Optional(S) == {<<>>} \cup {<<v>> : v \in S}

SetXY == \E x \in Optional(Coords), y \in Optional(CoordsY) :
            Returned(set_xy(region, x, y), OtherCall)

SetSize == \E width \in Coords, height \in CoordsY :
            Returned(set_size(region, width, height), OtherCall)

SetX == \E value \in Coords : Returned(set_x(region, value), OtherCall)
SetY == \E value \in CoordsY : Returned(set_y(region, value), OtherCall)
SetLeft == \E value \in Coords : Returned(set_left(region, value), OtherCall)
SetRight == \E value \in Coords : Returned(set_right(region, value), OtherCall)
SetTop == \E value \in CoordsY : Returned(set_top(region, value), OtherCall)
SetBottom == \E value \in CoordsY : Returned(set_bottom(region, value), OtherCall)
SetWidth == \E value \in Coords : Returned(set_width(region, value), OtherCall)
SetHeight == \E value \in CoordsY : Returned(set_height(region, value), OtherCall)

ExpandToRatio == \E aspect_ratio \in Ratios :
            Returned(expand_to_ratio(region, aspect_ratio), OtherCall)

Scale == \E scale_value \in ScaleValues : Returned(scale(region, scale_value), OtherCall)

\* Region.convert_to_int() called from outside: it truncates the stored values of
\* either kind of Region and recalibrates nothing.
ConvertToInt == Returned(convert_to_int(region), OtherCall)

\* The loader's variables are idle in SpecRegion.
LoaderIdle ==
    /\ pc = "idle"
    /\ indexRows = <<>>
    /\ gtRows = <<>>
    /\ samples = [order |-> <<>>, at |-> <<>>]
    /\ objs = <<>>
    /\ lists = <<>>
    /\ regs = <<>>
    /\ size = 0
    /\ i = 0
    /\ files = <<>>
    /\ loaded = <<>>
    /\ loadedFrom = -1

\* The DetectRegion of SpecDetect is idle in the other specifications.
DetectIdle ==
    /\ det = NewDetectRegion(TRUE)
    /\ back = None
    /\ detRaised = ""

\* The Regions of SpecClone are idle in the other specifications.
CloneIdle ==
    /\ rheap = <<>>
    /\ cloneId = 0
    /\ cloneSteps = 0
    /\ cloneRef = ""
    /\ cloneRaised = ""

\* The Sample of SpecSample is idle in the other specifications.
SampleIdle ==
    /\ smp = NewSampleObject
    /\ storage = <<>>
    /\ sres = [op |-> "init"]
    /\ ld = [pc |-> "idle", was_loaded |-> FALSE, foreign |-> FALSE]

\* check_and_load is idle in the other specifications.
CheckLoadIdle ==
    cl = [pc |-> "idle", exists |-> TRUE, existed |-> TRUE, remote_url |-> None,
          answers |-> <<>>, result |-> ""]

\* The download loop of SpecDownload is idle in the other specifications.
DownloadIdle ==
    /\ max_threads = 1
    /\ resident = <<>>
    /\ unloaded_samples = <<>>
    /\ cursor = 0
    /\ mainpc = "idle"
    /\ threads = <<>>

\* The re-derivation sequence is idle in the other specifications.
RederiveIdle ==
    rd = [stage |-> "start", n |-> 0, args |-> <<0, 0, 0, 0>>,
          rect |-> set_rect(NewRegion(TRUE), 0, 0, 0, 0),
          before |-> set_rect(NewRegion(TRUE), 0, 0, 0, 0)]

\* Region(force_int=...) with the default rectangle: set_rect(0, 0, 0, 0) on zeros.
InitRegion ==
    /\ \E force_int \in BOOLEAN : region = set_rect(NewRegion(force_int), 0, 0, 0, 0)
    /\ raised = ""
    /\ call = SetRectCall(0, 0, 0, 0)
    /\ LoaderIdle
    /\ DetectIdle
    /\ CloneIdle
    /\ SampleIdle
    /\ RederiveIdle
    /\ CheckLoadIdle
    /\ DownloadIdle

NextRegion ==
    \/ SetLeft
    \/ SetRight
    \/ SetTop
    \/ SetBottom
    \/ SetX
    \/ SetY
    \/ SetWidth
    \/ SetHeight
    \/ SetRect
    \/ SetXY
    \/ SetSize
    \/ ExpandToRatio
    \/ Scale
    \/ ConvertToInt

SpecRegion == InitRegion /\ [][NextRegion]_vars

----------------------------------------------------------------------------
(* SpecLoader and SpecExport: one run of cmd_create_samples (create_samples,  *)
(* associate_boxes_with_samples, export_samples) followed by one               *)
(* load_sample_set_from_file.  The CSV files are read row by row; indexRows    *)
(* and gtRows record the rows read so far.                                     *)

\* Bounds of the loader runs.
\* Rows of the image-index CSV under SpecLoader.
MaxIndexRows == 3
\* Rows of the ground-truth CSV under SpecLoader.
MaxGtRows == 2
\* The size argument of export_samples ranges over 1..MaxChunk.
MaxChunk == 3
\* Rows of the image-index CSV under SpecExport (whose ground-truth CSV is empty).
MaxExportRows == 5

\* The Region of SpecRegion is idle in the loader's specifications.
RegionIdle ==
    /\ region = set_rect(NewRegion(TRUE), 0, 0, 0, 0)
    /\ raised = ""
    /\ call = SetRectCall(0, 0, 0, 0)

\* The state before create_samples reads its first row.
InitLoader ==
    /\ pc = "create"
    /\ indexRows = <<>>
    /\ gtRows = <<>>
    /\ samples = EmptyDict
    /\ objs = <<>>
    /\ lists = <<>>
    /\ regs = <<>>
    /\ size = 0
    /\ i = 0
    /\ files = <<>>
    /\ loaded = <<>>
    /\ loadedFrom = -1
    /\ RegionIdle
    /\ DetectIdle
    /\ CloneIdle
    /\ SampleIdle
    /\ RederiveIdle
    /\ CheckLoadIdle
    /\ DownloadIdle

\* create_samples.action on the next row of the image-index CSV: a new Sample (with
\* its new list), stored under its key.
CreateRow(names, maxRows) ==
    /\ pc = "create"
    /\ Len(indexRows) < maxRows
    /\ \E name \in names :
        LET row == IndexRow(name)
            sample == SampleFromRow(row, lists)
        IN  /\ indexRows' = Append(indexRows, row)
            /\ lists' = Append(lists, <<>>)
            /\ objs' = Append(objs, sample)
            /\ samples' = DictSet(samples, sample.key, Len(objs) + 1)
    /\ UNCHANGED <<pc, gtRows, regs, size, i, files, loaded, loadedFrom, notLoaderVars>>

\* create_samples returns at the end of the CSV.
CreateEnd ==
    /\ pc = "create"
    /\ pc' = "associate"
    /\ UNCHANGED <<indexRows, gtRows, samples, objs, lists, regs, size, i, files, loaded,
                   loadedFrom, notLoaderVars>>

\* associate_boxes_with_samples.action on the next row of the ground-truth CSV.
AssociateRow(maxRows) ==
    /\ pc = "associate"
    /\ Len(gtRows) < maxRows
    /\ \E row \in GtRowPool :
        /\ gtRows' = Append(gtRows, row)
        /\ CASE Lookup(samples, RowKey(row)) = "skip" ->
                    UNCHANGED <<pc, lists, regs>>
             [] Lookup(samples, RowKey(row)) = "found" ->
                    LET sample == objs[samples.at[RowKey(row)]]
                        o == RowOutcome(row, lists, regs, sample.detect_regions)
                    IN  /\ regs' = o.regs
                        /\ lists' = o.lists
                        /\ pc' = IF o.raised THEN "error" ELSE pc
             [] OTHER ->
                    \* samples[key] of a key the mapping lacks: KeyError
                    /\ pc' = "error"
                    /\ UNCHANGED <<lists, regs>>
    /\ UNCHANGED <<indexRows, samples, objs, size, i, files, loaded, loadedFrom, notLoaderVars>>

\* associate_boxes_with_samples returns at the end of the CSV.
AssociateEnd ==
    /\ pc = "associate"
    /\ pc' = "associated"
    /\ UNCHANGED <<indexRows, gtRows, samples, objs, lists, regs, size, i, files, loaded,
                   loadedFrom, notLoaderVars>>

\* export_samples is called: lines 121-124.
ExportBegin ==
    /\ pc = "associated"
    /\ pc' = "export"
    /\ size' \in 1..MaxChunk
    /\ i' = 0
    /\ UNCHANGED <<indexRows, gtRows, samples, objs, lists, regs, files, loaded, loadedFrom,
                   notLoaderVars>>

\* One pass of the loop that writes a file: lines 126-133.
ExportWrite ==
    /\ pc = "export"
    /\ ~ExportBreaks(i, size, Len(DictValues(samples)))
    /\ files' = [n \in DOMAIN files \cup {i} |->
                    IF n = i
                    THEN WriteSamples(ExportSlice(DictValues(samples), i, size), i,
                                      objs, lists, regs)
                    ELSE files[n]]
    /\ i' = i + 1
    /\ UNCHANGED <<pc, indexRows, gtRows, samples, objs, lists, regs, size, loaded, loadedFrom,
                   notLoaderVars>>

\* The pass of the loop that breaks: lines 126-129.
ExportBreak ==
    /\ pc = "export"
    /\ ExportBreaks(i, size, Len(DictValues(samples)))
    /\ pc' = "exported"
    /\ UNCHANGED <<indexRows, gtRows, samples, objs, lists, regs, size, i, files, loaded,
                   loadedFrom, notLoaderVars>>

\* Sample.decode of the k-th sample of a JSON document: Sample() allocates its own
\* list, then the list of the decoded regions replaces it.  The heaps after decoding
\* the first k samples of doc, given the heaps before the first.
RECURSIVE DecodeSamples(_, _, _, _, _)
DecodeSamples(doc, k, os, ls, rs) ==
    IF k = 0 THEN [objs |-> os, lists |-> ls, regs |-> rs]
    ELSE LET h == DecodeSamples(doc, k - 1, os, ls, rs)
             d == doc.samples[k]
             fresh == NewSample(h.lists)
             ls1 == Append(h.lists, <<>>)
             nr == Len(d.detect_regions)
             rs1 == h.regs \o [j \in 1..nr |-> DecodeRegion(d.detect_regions[j])]
             ls2 == Append(ls1, [j \in 1..nr |-> Len(h.regs) + j])
             sample == [fresh EXCEPT !.key = d.key, !.remote_path = d.remote_path,
                                     !.detect_regions = Len(ls2),
                                     !.set_index = Some(doc.set_index)]
         IN  [objs |-> Append(h.objs, sample), lists |-> ls2, regs |-> rs1]

\* Sample.decode over data["samples"] raises when DetectRegion.decode of one of the
\* region mappings does.
DocRaises(doc) ==
    \E k \in 1..Len(doc.samples) :
        \E j \in 1..Len(doc.samples[k].detect_regions) :
            DecodeRaises(doc.samples[k].detect_regions[j])

\* Mutant: a missing file yields an empty list instead of the exception.
ExistsCheckReturnsEmpty(fs, n) == IF n \in DOMAIN fs THEN "exists" ELSE "empty"

\* load_sample_set_from_file, lines 65-66: os.path.exists(path) of sample_set_<n>.json,
\* and the exception when it is False.
ExistsCheck(fs, n) == IF n \in DOMAIN fs THEN "exists" ELSE "raise"

\* load_sample_set_from_file on sample_set_<n>.json.
LoadSampleSet ==
    /\ pc = "exported"
    /\ \E n \in 0..MaxIndexRows :
        CASE ExistsCheck(files, n) = "raise" ->
                \* line 66: raised before the file is opened
                /\ pc' = "load_error"
                /\ loadedFrom' = n
                /\ UNCHANGED <<objs, lists, regs, loaded>>
          [] ExistsCheck(files, n) = "exists" /\ DocRaises(files[n]) ->
                \* line 71: the exception of DetectRegion.decode leaves Sample.decode, the
                \* list comprehension and the function; nothing is returned.
                /\ pc' = "decode_error"
                /\ loadedFrom' = n
                /\ UNCHANGED <<objs, lists, regs, loaded>>
          [] ExistsCheck(files, n) = "exists" /\ ~DocRaises(files[n]) ->
                LET doc == files[n]
                    h == DecodeSamples(doc, Len(doc.samples), objs, lists, regs)
                IN  /\ pc' = "loaded"
                    /\ loadedFrom' = n
                    /\ objs' = h.objs
                    /\ lists' = h.lists
                    /\ regs' = h.regs
                    /\ loaded' = [k \in 1..Len(doc.samples) |-> Len(objs) + k]
          [] OTHER ->
                \* a normal return without the file
                /\ pc' = "loaded"
                /\ loadedFrom' = n
                /\ loaded' = <<>>
                /\ UNCHANGED <<objs, lists, regs>>
    /\ UNCHANGED <<indexRows, gtRows, samples, size, i, files, notLoaderVars>>

NextLoader ==
    \/ CreateRow(LoaderNames, MaxIndexRows)
    \/ CreateEnd
    \/ AssociateRow(MaxGtRows)
    \/ AssociateEnd
    \/ ExportBegin
    \/ ExportWrite
    \/ ExportBreak
    \/ LoadSampleSet

SpecLoader == InitLoader /\ [][NextLoader]_vars

\* SpecExport: the same run over up to MaxExportRows index rows of five distinct keys
\* and an empty ground-truth CSV.
NextExport ==
    \/ CreateRow(ExportNames, MaxExportRows)
    \/ CreateEnd
    \/ AssociateEnd
    \/ ExportBegin
    \/ ExportWrite
    \/ ExportBreak

SpecExport == InitLoader /\ [][NextExport]_vars

\* Rows of the image-index CSV under SpecExportFair.
MaxFairRows == 4

\* SpecExportFair: the run of SpecExport over up to MaxFairRows index rows, with the
\* loop of export_samples running on: a pass that can be made is made.
NextExportFair ==
    \/ CreateRow(ExportNames, MaxFairRows)
    \/ CreateEnd
    \/ AssociateEnd
    \/ ExportBegin
    \/ ExportWrite
    \/ ExportBreak

SpecExportFair ==
    /\ InitLoader
    /\ [][NextExportFair]_vars
    /\ WF_vars(ExportWrite)
    /\ WF_vars(ExportBreak)

----------------------------------------------------------------------------
(* SpecDetect: one DetectRegion under its constructor, the Region mutators the *)
(* loader uses on it, assignments of its meta-data, and encode followed by     *)
(* decode.                                                                     *)

\* confidence ranges over 0..MaxConfidence halves.
MaxConfidence == 2

\* The label ids assigned to class_id.
ClassIds == {"/m/dog", "/m/cat"}
\* The values assigned to a flag: 0 and 1.
FlagValues == {0, 2}

\* DetectRegion(force_int=...): the defaults.
InitDetect ==
    /\ \E force_int \in BOOLEAN : det = NewDetectRegion(force_int)
    /\ back = None
    /\ detRaised = ""
    /\ RegionIdle
    /\ LoaderIdle
    /\ CloneIdle
    /\ SampleIdle
    /\ RederiveIdle
    /\ CheckLoadIdle
    /\ DownloadIdle

\* An assignment to the DetectRegion: whatever decode returned before no longer
\* refers to its current state.
DetAssign(r) ==
    /\ det' = r
    /\ back' = None
    /\ detRaised' = ""
    /\ UNCHANGED notDetectVars

\* det.set_rect(left, right, top, bottom) with ordered arguments.
DetSetRect ==
    \E left \in CoordsY, right \in CoordsY, top \in CoordsY, bottom \in CoordsY :
        /\ ~set_rect_raises(left, right, top, bottom)
        /\ DetAssign(set_rect(det, left, right, top, bottom))

\* det.left = value
DetSetLeft == \E value \in CoordsY : DetAssign(set_left(det, value))

\* det.class_id = value
DetSetClassId == \E value \in ClassIds : DetAssign([det EXCEPT !.class_id = Some(value)])

\* det.confidence = value
DetSetConfidence ==
    \E value \in 0..MaxConfidence : DetAssign([det EXCEPT !.confidence = value])

\* det.<flag> = value
DetSetFlag ==
    \E flag \in FlagNames, value \in FlagValues : DetAssign([det EXCEPT ![flag] = value])

\* DetectRegion.decode(det.encode()): encode reads det and builds a new mapping.
DetRoundTrip ==
    /\ back' = Some(DecodeRegion(EncodeRegion(det)))
    /\ detRaised' = ""
    /\ UNCHANGED <<det, notDetectVars>>

NextDetect ==
    \/ DetSetRect
    \/ DetSetLeft
    \/ DetSetClassId
    \/ DetSetConfidence
    \/ DetSetFlag
    \/ DetRoundTrip

SpecDetect == InitDetect /\ [][NextDetect]_vars

----------------------------------------------------------------------------
(* SpecDecode: load_sample_set_from_file on a sample_set_0.json that holds up  *)
(* to MaxDocSamples samples of at most one region each, as export writes them  *)
(* or with one region mapping damaged: a key removed, or a value replaced.     *)

\* Samples of the document.
MaxDocSamples == 2

\* The keys of the document's samples, by position.
DocKeys == << <<"a">>, <<"b">>, <<"c">>, <<"d">> >>

\* The region mappings export writes for the ground-truth rows.
WrittenMappings == {EncodeRegion(RegionFromRow(row)) : row \in {r \in GtRowPool : ~RowRaises(r)}}

\* The values put in place of a field's value: None, three texts and the number 2.0.
ReplacedValues == {NoneValue, StrValue("abc"), StrValue("0.5"), StrValue("1"), NumValue(4)}

\* A mapping without one of its keys, and with another value for one of them.
Without(m, key) == [f \in DOMAIN m \ {key} |-> m[f]]
Replaced(m, key, v) == [m EXCEPT ![key] = v]
Damaged(m) ==
    {Without(m, key) : key \in EncodedFields}
    \cup {Replaced(m, a[1], a[2]) : a \in EncodedFields \X ReplacedValues}

\* The documents of up to maxSamples samples as export writes them.
WrittenDocs(maxSamples) ==
    LET regionLists == {<<>>} \cup {<<m>> : m \in WrittenMappings}
    IN  {[set_index |-> 0,
          samples |-> [k \in 1..n |->
                          [key |-> DocKeys[k],
                           remote_path |-> UrlOf(DocKeys[k]),
                           detect_regions |-> rl[k]]]] :
            n \in 1..maxSamples, rl \in [1..maxSamples -> regionLists]}

\* A written document with the one region of sample k damaged.
DamagedAt(doc, k) ==
    IF k <= Len(doc.samples) /\ Len(doc.samples[k].detect_regions) = 1
    THEN {[doc EXCEPT !.samples[k].detect_regions = <<m>>] :
             m \in Damaged(doc.samples[k].detect_regions[1])}
    ELSE {}
DamagedDocs(maxSamples) ==
    UNION {DamagedAt(doc, k) : doc \in WrittenDocs(maxSamples), k \in 1..maxSamples}

\* The directory holds sample_set_0.json; load_sample_set_from_file is not yet called.
InitDecode ==
    /\ pc = "exported"
    /\ files \in {[n \in {0} |-> doc] :
                    doc \in WrittenDocs(MaxDocSamples) \cup DamagedDocs(MaxDocSamples)}
    /\ indexRows = <<>>
    /\ gtRows = <<>>
    /\ samples = EmptyDict
    /\ objs = <<>>
    /\ lists = <<>>
    /\ regs = <<>>
    /\ size = 0
    /\ i = 0
    /\ loaded = <<>>
    /\ loadedFrom = -1
    /\ RegionIdle
    /\ DetectIdle
    /\ CloneIdle
    /\ SampleIdle
    /\ RederiveIdle
    /\ CheckLoadIdle
    /\ DownloadIdle

NextDecode == LoadSampleSet

SpecDecode == InitDecode /\ [][NextDecode]_vars

----------------------------------------------------------------------------
(* SpecSample: one Sample under assignments of key and set_index, queries of   *)
(* is_locally_loaded, load(), and files appearing in and vanishing from the    *)
(* image storage.                                                              *)

\* set_index ranges over None and 0..MaxSetIndex.
MaxSetIndex == 0

SampleKeys == {"", "a"}
SetIndexes == {None} \cup {Some(n) : n \in 0..MaxSetIndex}
ImagePaths == {ImagePath(n, k) : n \in SetIndexes, k \in SampleKeys}

\* Sample()
InitSample ==
    /\ smp = NewSampleObject
    /\ storage = <<>>
    /\ sres = [op |-> "init"]
    /\ ld = [pc |-> "idle", was_loaded |-> FALSE, foreign |-> FALSE]
    /\ RegionIdle
    /\ LoaderIdle
    /\ DetectIdle
    /\ CloneIdle
    /\ RederiveIdle
    /\ CheckLoadIdle
    /\ DownloadIdle

\* sample.key = key
SampleSetKey ==
    /\ ld.pc = "idle"
    /\ \E key \in SampleKeys : smp' = [smp EXCEPT !.key = key]
    /\ sres' = [op |-> "assign"]
    /\ UNCHANGED <<storage, ld, notSampleVars>>

\* sample.set_index = n
SampleSetIndex ==
    /\ ld.pc = "idle"
    /\ \E n \in SetIndexes : smp' = [smp EXCEPT !.set_index = n]
    /\ sres' = [op |-> "assign"]
    /\ UNCHANGED <<storage, ld, notSampleVars>>

\* sample.is_locally_loaded
SampleQuery ==
    /\ ld.pc = "idle"
    /\ smp' = CachePath(smp)
    /\ sres' = [op |-> "query", value |-> is_locally_loaded(smp, storage)]
    /\ UNCHANGED <<storage, ld, notSampleVars>>

\* sample.load() up to the call of urlretrieve: the path is built and cached,
\* pather.create has returned, and urlretrieve waits for the remote.
SampleLoad ==
    /\ ld.pc = "idle"
    /\ smp' = CachePath(smp)
    /\ storage' = pather_create(storage, local_image_path(smp))
    /\ ld' = [pc |-> "waiting", was_loaded |-> is_locally_loaded(smp, storage),
              foreign |-> FALSE]
    /\ sres' = [op |-> "load", value |-> "waiting"]
    /\ UNCHANGED notSampleVars

\* urlretrieve, first half: the URL cannot be opened and it raises; or the remote
\* answers and it opens the local file for writing, which raises when the path is a
\* directory and makes the file otherwise.  load() catches the exception and returns.
UrlretrieveOpen ==
    /\ ld.pc = "waiting"
    /\ \E answered \in BOOLEAN :
        IF answered /\ ~(local_image_path(smp) \in DOMAIN storage
                         /\ storage[local_image_path(smp)] = "dir")
        THEN /\ storage' = WithPath(storage, local_image_path(smp), "file")
             /\ ld' = [ld EXCEPT !.pc = "transfer"]
             /\ sres' = [op |-> "load", value |-> "transfer"]
        ELSE /\ storage' = storage
             /\ ld' = [ld EXCEPT !.pc = "idle"]
             /\ sres' = [op |-> "load", value |-> "caught"]
    /\ UNCHANGED <<smp, notSampleVars>>

\* urlretrieve, second half: the blocks are copied into the open file; it returns, or
\* it raises because the transfer broke or fewer bytes came than announced.  Nothing
\* is made or removed at the path: a file removed meanwhile stays removed.  load()
\* catches the exception and returns.
UrlretrieveCopy ==
    /\ ld.pc = "transfer"
    /\ \E raises \in BOOLEAN :
        sres' = [op |-> "load", value |-> IF raises THEN "caught" ELSE "complete"]
    /\ ld' = [ld EXCEPT !.pc = "idle"]
    /\ UNCHANGED <<smp, storage, notSampleVars>>

\* Another process writes an image file into the storage.
StorageCreate ==
    /\ \E path \in ImagePaths :
        /\ path \notin DOMAIN storage
        /\ storage' = WithPath(storage, path, "file")
    /\ sres' = [op |-> "storage"]
    /\ ld' = IF ld.pc = "idle" THEN ld ELSE [ld EXCEPT !.foreign = TRUE]
    /\ UNCHANGED <<smp, notSampleVars>>

\* Another process removes a path of the storage.
StorageRemove ==
    /\ \E path \in DOMAIN storage : storage' = [q \in DOMAIN storage \ {path} |-> storage[q]]
    /\ sres' = [op |-> "storage"]
    /\ ld' = IF ld.pc = "idle" THEN ld ELSE [ld EXCEPT !.foreign = TRUE]
    /\ UNCHANGED <<smp, notSampleVars>>

NextSample ==
    \/ SampleSetKey
    \/ SampleSetIndex
    \/ SampleQuery
    \/ SampleLoad
    \/ UrlretrieveOpen
    \/ UrlretrieveCopy
    \/ StorageCreate
    \/ StorageRemove

SpecSample == InitSample /\ [][NextSample]_vars

----------------------------------------------------------------------------
(* SpecClone: a Region under up to MaxBeforeClone mutator calls, one clone()  *)
(* of it, and then up to MaxCloneSteps mutator calls through either reference. *)

\* Mutator calls on the original explored before clone().
MaxBeforeClone == 2
\* Mutator calls explored after clone() returned.
MaxCloneSteps == 1

\* What one mutator call can leave of Region r, the arguments ranging over CoordsY
\* (a set_rect that raises leaves r as it is).
MutationsOf(r) ==
    {set_rect(r, a[1], a[2], a[3], a[4]) :
        a \in {b \in CoordsY \X CoordsY \X CoordsY \X CoordsY :
                    ~set_rect_raises(b[1], b[2], b[3], b[4])}}
    \cup {set_xy(r, a[1], a[2]) : a \in Optional(CoordsY) \X Optional(CoordsY)}
    \cup {set_size(r, a[1], a[2]) : a \in CoordsY \X CoordsY}
    \cup {set_x(r, v) : v \in CoordsY} \cup {set_y(r, v) : v \in CoordsY}
    \cup {set_left(r, v) : v \in CoordsY} \cup {set_right(r, v) : v \in CoordsY}
    \cup {set_top(r, v) : v \in CoordsY} \cup {set_bottom(r, v) : v \in CoordsY}
    \cup {set_width(r, v) : v \in CoordsY} \cup {set_height(r, v) : v \in CoordsY}
    \cup {expand_to_ratio(r, v) : v \in Ratios}
    \cup {scale(r, v) : v \in ScaleValues}
    \cup {convert_to_int(r)}

\* The object a reference names.
ObjectOf(ref) == IF ref = "original" THEN 1 ELSE cloneId

\* Region(force_int=...): the original.
InitClone ==
    /\ \E force_int \in BOOLEAN : rheap = <<set_rect(NewRegion(force_int), 0, 0, 0, 0)>>
    /\ cloneId = 0
    /\ cloneSteps = 0
    /\ cloneRef = ""
    /\ cloneRaised = ""
    /\ RegionIdle
    /\ LoaderIdle
    /\ DetectIdle
    /\ SampleIdle
    /\ RederiveIdle
    /\ CheckLoadIdle
    /\ DownloadIdle

\* A mutator call on the original before clone().
MutateBeforeClone ==
    /\ cloneId = 0
    /\ cloneRaised = ""
    /\ cloneSteps < MaxBeforeClone
    /\ \E r \in MutationsOf(rheap[1]) :
        /\ InRange(r)
        /\ rheap' = [rheap EXCEPT ![1] = r]
    /\ cloneSteps' = cloneSteps + 1
    /\ UNCHANGED <<cloneId, cloneRef, cloneRaised, notCloneVars>>

\* original.clone()
Clone ==
    /\ cloneId = 0
    /\ cloneRaised = ""
    /\ IF clone_raises(rheap[1])
       THEN /\ cloneRaised' = "Invalid Input"
            /\ UNCHANGED <<rheap, cloneId>>
       ELSE LET id == CloneObject(rheap, 1)
            IN  /\ rheap' = [k \in DOMAIN rheap \cup {id} |->
                                IF k = id THEN clone(rheap[1]) ELSE rheap[k]]
                /\ cloneId' = id
                /\ UNCHANGED cloneRaised
    /\ cloneSteps' = 0
    /\ UNCHANGED <<cloneRef, notCloneVars>>

\* A mutator call through the original's or the clone's reference after clone().
MutateAfterClone ==
    /\ cloneId # 0
    /\ cloneSteps < MaxCloneSteps
    /\ \E ref \in {"original", "clone"} :
        \E r \in MutationsOf(rheap[ObjectOf(ref)]) :
            /\ InRange(r)
            /\ rheap' = [rheap EXCEPT ![ObjectOf(ref)] = r]
            /\ cloneRef' = ref
    /\ cloneSteps' = cloneSteps + 1
    /\ UNCHANGED <<cloneId, cloneRaised, notCloneVars>>

NextClone ==
    \/ MutateBeforeClone
    \/ Clone
    \/ MutateAfterClone

SpecClone == InitClone /\ [][NextClone]_vars

----------------------------------------------------------------------------
(* SpecRederive: a force_int Region under up to MaxBeforeRect mutator calls,   *)
(* and then either set_rect with ordered arguments, set_size with the width    *)
(* and height that resulted and set_xy with the x and y that resulted, or one  *)
(* call of expand_to_ratio.                                                    *)

\* Mutator calls explored before set_rect or expand_to_ratio.
MaxBeforeRect == 2

\* What one mutator call can leave of Region r: as MutationsOf, and with the sizes and
\* centres of the horizontal range on both axes.
WideMutationsOf(r) ==
    MutationsOf(r)
    \cup {set_size(r, a[1], a[2]) : a \in Coords \X Coords}
    \cup {set_xy(r, Some(a[1]), Some(a[2])) : a \in Coords \X Coords}

\* What the steps of the sequence leave alone.
notRederiveVars == <<raised, call, loaderVars, detectVars, cloneVars, sampleVars, downloadVars,
                     checkLoadVars>>

\* Region(): force_int is True by default.
InitRederive ==
    /\ region = set_rect(NewRegion(TRUE), 0, 0, 0, 0)
    /\ raised = ""
    /\ call = SetRectCall(0, 0, 0, 0)
    /\ RederiveIdle
    /\ CheckLoadIdle
    /\ DownloadIdle
    /\ LoaderIdle
    /\ DetectIdle
    /\ CloneIdle
    /\ SampleIdle

\* A mutator call before the sequence.
RederiveMutate ==
    /\ rd.stage = "start"
    /\ rd.n < MaxBeforeRect
    /\ \E r \in WideMutationsOf(region) :
        /\ InRange(r)
        /\ region' = r
    /\ rd' = [rd EXCEPT !.n = rd.n + 1]
    /\ UNCHANGED notRederiveVars

\* region.set_rect(left, right, top, bottom) with right >= left and bottom >= top.
RederiveSetRect ==
    /\ rd.stage = "start"
    /\ \E left \in Coords, right \in Coords, top \in CoordsY, bottom \in CoordsY :
        /\ ~set_rect_raises(left, right, top, bottom)
        /\ region' = set_rect(region, left, right, top, bottom)
        /\ rd' = [rd EXCEPT !.stage = "rect", !.args = <<left, right, top, bottom>>,
                            !.rect = region']
    /\ UNCHANGED notRederiveVars

\* region.set_size(region.width, region.height)
RederiveSetSize ==
    /\ rd.stage = "rect"
    /\ region' = set_size(region, region.width, region.height)
    /\ rd' = [rd EXCEPT !.stage = "size"]
    /\ UNCHANGED notRederiveVars

\* region.set_xy(region.x, region.y)
RederiveSetXY ==
    /\ rd.stage = "size"
    /\ region' = set_xy(region, Some(region.x), Some(region.y))
    /\ rd' = [rd EXCEPT !.stage = "xy"]
    /\ UNCHANGED notRederiveVars

\* region.expand_to_ratio(aspect_ratio)
RederiveExpand ==
    /\ rd.stage = "start"
    /\ \E aspect_ratio \in Ratios :
        /\ InRange(expand_to_ratio(region, aspect_ratio))
        /\ region' = expand_to_ratio(region, aspect_ratio)
        /\ rd' = [rd EXCEPT !.stage = "expanded", !.args = <<aspect_ratio, 0, 0, 0>>,
                            !.before = region]
    /\ UNCHANGED notRederiveVars

NextRederive ==
    \/ RederiveMutate
    \/ RederiveExpand
    \/ RederiveSetRect
    \/ RederiveSetSize
    \/ RederiveSetXY

SpecRederive == InitRederive /\ [][NextRederive]_vars

----------------------------------------------------------------------------
(* SpecDownload: the bulk download loop of cmd_load_sample_images.py.  The     *)
(* Samples are those load_sample_set_from_file returned, one new object per    *)
(* entry of the file, named by their position in that list.  The main thread   *)
(* filters the list and walks it; every thread it starts runs Sample.load of   *)
(* its Sample and ends when load returns, which it does whether the fetch      *)
(* completed or its exception was caught.                                      *)

\* Samples of the loaded list.
MaxDlSamples == 3
\* --max_threads ranges over 1..MaxThreads.
MaxThreads == 2

\* The worker threads that are alive.
AliveWorkers(ths) == {t \in 1..Len(ths) : ths[t].state = "alive"}

\* Mutant: the main thread not counted.
active_count_workers(ths) == Cardinality(AliveWorkers(ths))

\* Mutant: two threads besides the workers counted.
active_count_two_more(ths) == 2 + Cardinality(AliveWorkers(ths))

\* threading.active_count(): the Thread objects alive, the main thread among them.
active_count(ths) == 1 + Cardinality(AliveWorkers(ths))

\* Mutant: every Sample of the list taken.
UnloadedSamplesAll(flags) == [p \in 1..Len(flags) |-> p]

\* Line 46: [s for s in samples if not s.is_locally_loaded], as positions in samples.
UnloadedSamples(flags) == SelectSeq([p \in 1..Len(flags) |-> p], LAMBDA p : ~flags[p])

\* Lines 28-45: the arguments are parsed and the sample set is loaded.
InitDownload ==
    /\ max_threads \in 1..MaxThreads
    /\ \E n \in 0..MaxDlSamples : resident \in [1..n -> BOOLEAN]
    /\ unloaded_samples = <<>>
    /\ cursor = 0
    /\ mainpc = "read"
    /\ threads = <<>>
    /\ RegionIdle
    /\ LoaderIdle
    /\ DetectIdle
    /\ CloneIdle
    /\ SampleIdle
    /\ RederiveIdle
    /\ CheckLoadIdle

\* Lines 46-51: the Samples not locally loaded are listed.
DlFilter ==
    /\ mainpc = "read"
    /\ unloaded_samples' = UnloadedSamples(resident)
    /\ mainpc' = "check"
    /\ UNCHANGED <<max_threads, resident, cursor, threads>>

\* Lines 55-58 and 62-63: there is room: a thread is started on the next Sample's load
\* and the for loop moves on.
DlStart ==
    /\ mainpc = "check"
    /\ cursor < Len(unloaded_samples)
    /\ active_count(threads) <= max_threads
    /\ threads' = Append(threads, [target |-> unloaded_samples[cursor + 1], state |-> "alive"])
    /\ cursor' = cursor + 1
    /\ UNCHANGED <<max_threads, resident, unloaded_samples, mainpc>>

\* Lines 55, 59-60: no room: the main thread sleeps.
DlSleep ==
    /\ mainpc = "check"
    /\ cursor < Len(unloaded_samples)
    /\ ~(active_count(threads) <= max_threads)
    /\ mainpc' = "sleep"
    /\ UNCHANGED <<max_threads, resident, unloaded_samples, cursor, threads>>

\* Line 60 returns: back to the test of line 55.
DlWake ==
    /\ mainpc = "sleep"
    /\ mainpc' = "check"
    /\ UNCHANGED <<max_threads, resident, unloaded_samples, cursor, threads>>

\* Line 53: unloaded_samples is exhausted, the for loop ends.
DlEnd ==
    /\ mainpc = "check"
    /\ cursor = Len(unloaded_samples)
    /\ mainpc' = "done"
    /\ UNCHANGED <<max_threads, resident, unloaded_samples, cursor, threads>>

\* Sample.load returns in worker t, the fetch completed or its exception caught and
\* logged, and the thread ends.
WorkerReturn(t) ==
    /\ t \in 1..Len(threads)
    /\ threads[t].state = "alive"
    /\ \E outcome \in {"complete", "caught"} :
            threads' = [threads EXCEPT ![t].state = outcome]
    /\ UNCHANGED <<max_threads, resident, unloaded_samples, cursor, mainpc>>

\* A step of the main thread, and a step of a worker.
DlMain == DlFilter \/ DlStart \/ DlSleep \/ DlWake \/ DlEnd
DlWorker == \E t \in 1..Len(threads) : WorkerReturn(t)

NextDownload ==
    \/ DlFilter /\ UNCHANGED notDownloadVars
    \/ DlStart /\ UNCHANGED notDownloadVars
    \/ DlSleep /\ UNCHANGED notDownloadVars
    \/ DlWake /\ UNCHANGED notDownloadVars
    \/ DlEnd /\ UNCHANGED notDownloadVars
    \/ DlWorker /\ UNCHANGED notDownloadVars

SpecDownload == InitDownload /\ [][NextDownload]_vars

\* The main thread keeps running, and every fetch started finishes.
SpecDownloadFair ==
    /\ SpecDownload
    /\ WF_vars(DlMain /\ UNCHANGED notDownloadVars)
    /\ \A t \in 1..MaxDlSamples : WF_vars(WorkerReturn(t) /\ UNCHANGED notDownloadVars)

----------------------------------------------------------------------------
(* SpecCheckLoad: one call of Loader.check_and_load(path, remote_url), the     *)
(* user answering its prompts.                                                 *)

\* Answers explored in one call.
MaxPrompts == 5

\* What is typed at the prompt: y, n, or something else.
Responses == {"y", "n", "x"}

\* Mutant: the answer y leaves the loop too (a break after the download).
LoopStepBreakOnYes(response) == IF response \in {"y", "n"} THEN "break" ELSE "again"

\* Lines 174-177: what the loop does with a response once line 168's branch is done:
\* "n" breaks, every other response (y too) prints the complaint and prompts again.
LoopStep(response) == IF response = "n" THEN "break" ELSE "again"

\* check_and_load is called: the file exists or not, a remote_url is given or not.
InitCheckLoad ==
    /\ \E e \in BOOLEAN, u \in {None, Some("url")} :
            cl = [pc |-> "call", exists |-> e, existed |-> e, remote_url |-> u,
                  answers |-> <<>>, result |-> ""]
    /\ RegionIdle
    /\ LoaderIdle
    /\ DetectIdle
    /\ CloneIdle
    /\ SampleIdle
    /\ RederiveIdle
    /\ DownloadIdle

\* Lines 159-163 and 179: the file exists: return; it does not and no remote_url is
\* given: raise; else enter the prompt loop.
ClCall ==
    /\ cl.pc = "call"
    /\ cl' = IF cl.exists THEN [cl EXCEPT !.pc = "end", !.result = "returned"]
             ELSE IF cl.remote_url = None
                  THEN [cl EXCEPT !.pc = "end", !.result = "File not found"]
                  ELSE [cl EXCEPT !.pc = "prompt"]
    /\ UNCHANGED notCheckLoadVars

\* Lines 166-177 and 179: input() returns a response.  On y the file is fetched:
\* urlretrieve completes, or it raises and the exception leaves check_and_load, the
\* file written in part or not at all.
ClAnswer ==
    /\ cl.pc = "prompt"
    /\ Len(cl.answers) < MaxPrompts
    /\ \E response \in Responses :
        \E o \in IF response = "y"
                 THEN {[raised |-> FALSE, exists |-> TRUE],
                       [raised |-> TRUE, exists |-> cl.exists],
                       [raised |-> TRUE, exists |-> TRUE]}
                 ELSE {[raised |-> FALSE, exists |-> cl.exists]} :
            cl' = IF o.raised
                  THEN [cl EXCEPT !.answers = Append(@, response), !.exists = o.exists,
                                  !.pc = "end", !.result = "download error"]
                  ELSE IF LoopStep(response) = "break"
                       THEN [cl EXCEPT !.answers = Append(@, response), !.exists = o.exists,
                                       !.pc = "end", !.result = "File not found"]
                       ELSE [cl EXCEPT !.answers = Append(@, response), !.exists = o.exists]
    /\ UNCHANGED notCheckLoadVars

\* Line 166: input() raises (EOFError at the end of the input) and the exception
\* leaves check_and_load.
ClInputRaises ==
    /\ cl.pc = "prompt"
    /\ cl' = [cl EXCEPT !.pc = "end", !.result = "EOFError"]
    /\ UNCHANGED notCheckLoadVars

NextCheckLoad ==
    \/ ClCall
    \/ ClAnswer
    \/ ClInputRaises

SpecCheckLoad == InitCheckLoad /\ [][NextCheckLoad]_vars

----------------------------------------------------------------------------
(* Claims about the loader, checked under SpecLoader or SpecExport. *)

\* len(samples): the number of Samples of the mapping.
NSamples == Len(samples.order)

\* The Sample at position p (1-based) of the mapping's iteration order.
SampleAt(p) == objs[samples.at[samples.order[p]]]

\* The region ids of a Sample object's detect_regions list.
RegionsOf(o) == lists[o.detect_regions]

\* The keys of the samples written to file n.
FileKeys(n) == {files[n].samples[q].key : q \in 1..Len(files[n].samples)}

\* How many entries of the written files carry this key.
Occurrences(key) ==
    Cardinality({fq \in UNION {{<<n, q>> : q \in 1..Len(files[n].samples)} : n \in DOMAIN files} :
                    files[fq[1]].samples[fq[2]].key = key})

\* ceil(n / s) - 1 for n >= 1, and 0 for n = 0.
ChunksBeforeLast(n, s) == IF n = 0 THEN 0 ELSE (n - 1) \div s

\* C3 as stated: export_samples writes exactly floor(n / s) files, and every sample of
\* a full chunk appears in exactly one written file.
C3_FloorFiles ==
    pc = "exported" =>
        /\ Cardinality(DOMAIN files) = NSamples \div size
        /\ \A p \in 1..((NSamples \div size) * size) : Occurrences(samples.order[p]) = 1

\* C3 as amended: export_samples writes exactly ceil(n / s) - 1 files (none for n = 0),
\* numbered from 0, each holding s samples: the last chunk is never written, even when
\* it is full; every sample of a written chunk appears in exactly one written file.
C3_AllButLastChunk ==
    pc = "exported" =>
        /\ DOMAIN files = 0..(ChunksBeforeLast(NSamples, size) - 1)
        /\ \A n \in DOMAIN files : Len(files[n].samples) = size
        /\ \A p \in 1..(ChunksBeforeLast(NSamples, size) * size) :
                Occurrences(samples.order[p]) = 1

\* C3's case: four samples exported in chunks of two leave a single file.
C3_Witness ==
    /\ pc = "exported"
    /\ NSamples = 4
    /\ size = 2
    /\ DOMAIN files = {0}

\* C4: when n is not a multiple of s, export_samples ends normally having written
\* floor(n / s) files, and the trailing n mod s samples appear in no written file.
C4_PartialChunkDropped ==
    (pc = "exported" /\ NSamples % size # 0) =>
        /\ DOMAIN files = 0..((NSamples \div size) - 1)
        /\ \A p \in ((NSamples \div size) * size + 1)..NSamples :
                Occurrences(samples.order[p]) = 0

\* C4's example: five samples in chunks of two give sample_set_0 and sample_set_1 with
\* two samples each, and the fifth sample is in no file.
C4_Witness ==
    /\ pc = "exported"
    /\ NSamples = 5
    /\ size = 2
    /\ DOMAIN files = {0, 1}
    /\ Len(files[0].samples) = 2
    /\ Len(files[1].samples) = 2
    /\ Occurrences(samples.order[5]) = 0

\* The keys the image-index rows read so far produce.
IndexKeys == {SplitFirst(indexRows[k][1]) : k \in 1..Len(indexRows)}

\* The ground-truth rows read so far whose image id is one of these keys.
KnownGtRows == {k \in 1..Len(gtRows) : gtRows[k][1] \in IndexKeys}

\* The regions held by the first p samples of the mapping, counted with repetition.
RECURSIVE RegionCount(_)
RegionCount(p) == IF p = 0 THEN 0 ELSE RegionCount(p - 1) + Len(RegionsOf(SampleAt(p)))

\* The pipeline is past associate_boxes_with_samples, which returned normally.
Associated == pc \in {"associated", "export", "exported", "loaded", "load_error"}

\* C5: with N unique keys in the index CSV and K of the M ground-truth rows naming one
\* of them, the two passes yield N samples holding K regions in total.
C5_SampleAndRegionCounts ==
    Associated =>
        /\ NSamples = Cardinality(IndexKeys)
        /\ DOMAIN samples.at = IndexKeys
        /\ RegionCount(NSamples) = Cardinality(KnownGtRows)

\* C5's case: three index rows with two unique keys, two ground-truth rows of which
\* one names a known key.
C5_Witness ==
    /\ pc = "associated"
    /\ Len(indexRows) = 3
    /\ NSamples = 2
    /\ Len(gtRows) = 2
    /\ Cardinality(KnownGtRows) = 1
    /\ RegionCount(NSamples) = 1

\* C6: the samples load_sample_set_from_file returns for a written file equal, in
\* order, the exported Samples in key, remote_path and detect_regions, and each
\* carries the set_index stored in the file, the index of the chunk.
C6_RoundTrip ==
    pc = "loaded" =>
        /\ files[loadedFrom].set_index = loadedFrom
        /\ Len(loaded) = size
        /\ \A q \in 1..Len(loaded) :
            LET orig == SampleAt(loadedFrom * size + q)
                new == objs[loaded[q]]
            IN  /\ new.key = orig.key
                /\ new.remote_path = orig.remote_path
                /\ new.set_index = Some(loadedFrom)
                /\ Len(RegionsOf(new)) = Len(RegionsOf(orig))
                /\ \A j \in 1..Len(RegionsOf(orig)) :
                        regs[RegionsOf(new)[j]] = regs[RegionsOf(orig)[j]]

\* C6's case: the first file, of two samples of which one has two regions, loaded.
C6_Witness ==
    /\ pc = "loaded"
    /\ loadedFrom = 0
    /\ Len(loaded) = 2
    /\ \E q \in 1..2 : Len(RegionsOf(objs[loaded[q]])) = 2

\* C7: the files of one export_samples run are pairwise disjoint in their keys.
C7_FilesDisjoint ==
    \A m \in DOMAIN files : \A n \in DOMAIN files :
        m # n => FileKeys(m) \cap FileKeys(n) = {}

\* C7's case: three files of one sample each, written after an index CSV with a
\* repeated key.
C7_Witness ==
    /\ pc = "exported"
    /\ size = 1
    /\ DOMAIN files = {0, 1, 2}
    /\ Len(indexRows) > NSamples

\* C8: every DetectRegion object is an element of the detect_regions list of exactly
\* one Sample, once, and no two Samples share a list.
C8_RegionsOwnedOnce ==
    /\ \A a \in 1..Len(objs) : \A b \in 1..Len(objs) :
            a # b => objs[a].detect_regions # objs[b].detect_regions
    /\ \A rid \in 1..Len(regs) :
            Cardinality({aj \in UNION {{<<a, j>> : j \in 1..Len(RegionsOf(objs[a]))} :
                                            a \in 1..Len(objs)} :
                            RegionsOf(objs[aj[1]])[aj[2]] = rid}) = 1

\* C8's case: two Samples of the mapping hold a region each, and a decoded Sample
\* holds one too.
C8_Witness ==
    /\ pc = "loaded"
    /\ NSamples >= 2
    /\ Len(RegionsOf(SampleAt(1))) = 1
    /\ Len(RegionsOf(SampleAt(2))) = 1
    /\ \E q \in 1..Len(loaded) : Len(RegionsOf(objs[loaded[q]])) = 1

\* The ground-truth rows read so far whose image id is this key, in row order.
RowsOf(key) == SelectSeq(gtRows, LAMBDA r : r[1] = key)

\* The region carries the row's class id, confidence, rectangle and five flags.
CarriesRow(g, r) ==
    /\ g.class_id = Some(r[3])
    /\ g.confidence = r[4].v
    /\ g.left = r[5].v
    /\ g.right = r[6].v
    /\ g.top = r[7].v
    /\ g.bottom = r[8].v
    /\ g.is_occluded = r[9].v
    /\ g.is_truncated = r[10].v
    /\ g.is_group_of = r[11].v
    /\ g.is_depiction = r[12].v
    /\ g.is_inside = r[13].v

\* C9: after associate_boxes_with_samples each sample holds one region per ground-truth
\* row of its key, in row order, each carrying that row's values; a sample without a
\* matching row holds none.
C9_RegionsFollowRows ==
    pc = "associated" =>
        \A p \in 1..NSamples :
            LET o == SampleAt(p)
                rows == RowsOf(samples.order[p])
            IN  /\ o.key = samples.order[p]
                /\ Len(RegionsOf(o)) = Len(rows)
                /\ \A j \in 1..Len(rows) : CarriesRow(regs[RegionsOf(o)[j]], rows[j])

\* C9's case: sample a holds the cat row's region before the dog row's, sample b none.
C9_Witness ==
    /\ pc = "associated"
    /\ NSamples = 2
    /\ SampleAt(1).key = <<"a">>
    /\ Len(RegionsOf(SampleAt(1))) = 2
    /\ regs[RegionsOf(SampleAt(1))[1]].class_id = Some("/m/cat")
    /\ regs[RegionsOf(SampleAt(1))[2]].class_id = Some("/m/dog")
    /\ Len(RegionsOf(SampleAt(2))) = 0

\* C10: a ground-truth row whose image id is no key of the mapping is skipped without
\* error: the mapping, the Samples, their lists and the regions stay as they were and
\* the pass goes on to the next row.
C10_UnknownKeySkipped ==
    [][(/\ pc = "associate"
        /\ Len(gtRows') = Len(gtRows) + 1
        /\ gtRows'[Len(gtRows')][1] \notin DOMAIN samples.at)
       => (/\ pc' = "associate"
           /\ samples' = samples
           /\ objs' = objs
           /\ lists' = lists
           /\ regs' = regs)]_vars

\* C10's case: a row of an unknown key was skipped and the next row, of a known key,
\* added its region.
C10_Witness ==
    /\ pc = "associate"
    /\ Len(gtRows) = 2
    /\ gtRows[1][1] \notin DOMAIN samples.at
    /\ gtRows[2][1] \in DOMAIN samples.at
    /\ Len(regs) = 1

\* The last row of the image-index CSV whose image id is this key.
LastIndexRow(key) ==
    LET ks == {k \in 1..Len(indexRows) : SplitFirst(Col(indexRows[k], 0)) = key}
    IN  indexRows[CHOOSE k \in ks : \A m \in ks : m <= k]

\* C11: create_samples returns exactly one Sample per distinct key of the index CSV,
\* and the Sample of a key that several rows carry is the one built from the last of
\* them: its remote_path is that row's URL and no Sample of an earlier row is left in
\* the mapping.
C11_LastRowWins ==
    pc # "create" =>
        /\ NSamples = Cardinality(IndexKeys)
        /\ DOMAIN samples.at = IndexKeys
        /\ \A p \in 1..NSamples :
              /\ SampleAt(p).key = samples.order[p]
              /\ SampleAt(p).remote_path = Col(LastIndexRow(samples.order[p]), 1)

\* C11's case: key a came in two rows with different URLs and create_samples returned
\* the Sample of the second.
C11_Witness ==
    /\ pc = "associate"
    /\ Len(indexRows) = 3
    /\ Col(indexRows[1], 1) = UrlOf(<<"a", ".", "j">>)
    /\ Col(indexRows[3], 1) = UrlOf(<<"a", ".", "p">>)
    /\ NSamples = 2
    /\ SampleAt(1).key = <<"a">>
    /\ SampleAt(1).remote_path = UrlOf(<<"a", ".", "p">>)

\* C16: load_sample_set_from_file on a path where no file is raises before anything
\* is opened or parsed (no Sample is decoded, nothing is returned), and on a path
\* where a file is the existence check does not raise.
C16_MissingFileRaises ==
    [][(pc = "exported" /\ pc' # "exported")
       => IF loadedFrom' \in DOMAIN files
          THEN pc' # "load_error"
          ELSE /\ pc' = "load_error"
               /\ loaded' = <<>>
               /\ objs' = objs
               /\ lists' = lists
               /\ regs' = regs]_vars

\* C16's case: sample_set_0.json was written, sample_set_1.json was not, and loading
\* the latter raised.
C16_Witness ==
    /\ pc = "load_error"
    /\ DOMAIN files = {0}
    /\ loadedFrom = 1
    /\ loaded = <<>>

\* A value that float() rejects, and one that int() rejects: None, and a text that is
\* no number, respectively no integer.
NoFloat(v) == v.t = "None" \/ (v.t = "str" /\ v.s \notin {"0.5", "1"})
NoInt(v) == v.t = "None" \/ (v.t = "str" /\ v.s # "1")

\* A region mapping that lacks one of the 11 keys or holds a value that cannot be
\* coerced to its field's type (every value can be coerced to class_id's string).
Malformed(m) ==
    \/ DOMAIN m # EncodedFields
    \/ \E f \in FloatNames \cap DOMAIN m : NoFloat(m[f])
    \/ \E f \in FlagNames \cap DOMAIN m : NoInt(m[f])

\* The region mappings of a document.
MappingsOf(doc) ==
    UNION {{doc.samples[k].detect_regions[j] : j \in 1..Len(doc.samples[k].detect_regions)} :
           k \in 1..Len(doc.samples)}

\* C17: DetectRegion.decode of a mapping that lacks one of the 11 keys or holds a value
\* that cannot be coerced to its field's type fails, and with it Sample.decode and
\* load_sample_set_from_file as a whole: no region is made and no sample list, not
\* even of the samples before the malformed one, is returned.
C17_MalformedFails ==
    [][(/\ pc = "exported"
        /\ pc' # "exported"
        /\ loadedFrom' \in DOMAIN files
        /\ \E m \in MappingsOf(files[loadedFrom']) : Malformed(m))
       => (/\ pc' = "decode_error"
           /\ loaded' = <<>>
           /\ regs' = regs)]_vars

\* C17's case: the first sample of the file is as written, the region of the second
\* lacks is_inside, and the load failed without a list.
C17_Witness ==
    /\ pc = "decode_error"
    /\ loadedFrom = 0
    /\ Len(files[0].samples) = 2
    /\ Len(files[0].samples[1].detect_regions) = 1
    /\ ~Malformed(files[0].samples[1].detect_regions[1])
    /\ DOMAIN files[0].samples[2].detect_regions[1] = EncodedFields \ {"is_inside"}
    /\ loaded = <<>>

\* C23: the file export_samples writes in pass i is sample_set_<i>.json, stores
\* set_index = i and holds exactly the size samples at positions i * size ..
\* (i + 1) * size - 1 (0-based) of the mapping's iteration order, in that order; the
\* indices written are contiguous from 0 and no file holds more than size samples.
C23_FileHoldsItsChunk ==
    pc \in {"export", "exported"} =>
        /\ DOMAIN files = 0..(i - 1)
        /\ \A n \in DOMAIN files :
              /\ files[n].set_index = n
              /\ Len(files[n].samples) = size
              /\ \A q \in 1..size :
                    files[n].samples[q] = EncodeSample(SampleAt(n * size + q), lists, regs)

\* C23's case: five samples exported in chunks of two: sample_set_1.json holds the
\* third and the fourth sample of the mapping.
C23_Witness ==
    /\ pc = "exported"
    /\ NSamples = 5
    /\ size = 2
    /\ i = 2
    /\ files[1].set_index = 1
    /\ files[1].samples[1].key = samples.order[3]
    /\ files[1].samples[2].key = samples.order[4]

\* C24: decoding a region mapping whose bounds are inverted fails: no Sample that
\* load_sample_set_from_file returns holds a DetectRegion with right < left or
\* bottom < top.
C24_InvertedBoundsRejected ==
    pc = "loaded" =>
        \A q \in 1..Len(loaded) :
            \A j \in 1..Len(RegionsOf(objs[loaded[q]])) :
                /\ regs[RegionsOf(objs[loaded[q]])[j]].right >= regs[RegionsOf(objs[loaded[q]])[j]].left
                /\ regs[RegionsOf(objs[loaded[q]])[j]].bottom >= regs[RegionsOf(objs[loaded[q]])[j]].top

\* C28: export_samples terminates for every sample count and every size >= 1: a pass
\* of its loop with (i + 1) * size >= n leaves the loop and writes nothing, any other
\* pass writes one file and raises i by one, so that i * size < n still holds; and the
\* loop, once entered, is left.
C28_ExportTerminates ==
    /\ [][pc = "export"
          => IF (i + 1) * size >= NSamples
             THEN pc' = "exported" /\ files' = files /\ i' = i
             ELSE /\ pc' = "export"
                  /\ i' = i + 1
                  /\ i' * size < NSamples
                  /\ DOMAIN files' = DOMAIN files \cup {i}]_vars
    /\ (pc = "export") ~> (pc = "exported")

\* C28's case: the loop was left after three files for four samples in chunks of one.
C28_Witness ==
    /\ pc = "exported"
    /\ NSamples = 4
    /\ size = 1
    /\ i = 3
    /\ DOMAIN files = 0..2

\* The text of a column is no number, respectively no integer.
NoNumber(c) == c.t = "str" /\ c.s \notin {"0.5", "1"}
NoInteger(c) == (c.t = "str" /\ c.s # "1") \/ (c.t = "number" /\ c.v % 2 # 0)

\* A ground-truth row that cannot be processed: too few columns, a bound or the
\* confidence that is no number, a flag that is no integer, or x_max < x_min or
\* y_max < y_min.
RowFails(row) ==
    \/ Len(row) < 13
    \/ \E k \in 4..8 : NoNumber(row[k])
    \/ \E k \in 9..13 : NoInteger(row[k])
    \/ row[6].v < row[5].v
    \/ row[8].v < row[7].v

\* C29: a ground-truth row of a known key that fails while it is processed ends the
\* pass with its error and adds nothing: every list and every region stays as it was;
\* and every region in a detect_regions list carries all the values of one of the rows
\* read, so none is partially filled.
C29_FailedRowAddsNothing ==
    /\ [][(/\ pc = "associate"
           /\ Len(gtRows') = Len(gtRows) + 1
           /\ gtRows'[Len(gtRows')][1] \in DOMAIN samples.at
           /\ RowFails(gtRows'[Len(gtRows')]))
          => (/\ pc' = "error"
              /\ samples' = samples
              /\ objs' = objs
              /\ lists' = lists
              /\ regs' = regs)]_vars
    /\ [](pc \in {"associate", "error", "associated"} =>
            \A a \in 1..Len(objs) : \A j \in 1..Len(RegionsOf(objs[a])) :
                \E k \in 1..Len(gtRows) :
                    /\ ~RowFails(gtRows[k])
                    /\ CarriesRow(regs[RegionsOf(objs[a])[j]], gtRows[k]))

\* C29's case: the first row gave sample a its region, the second row, of key a too,
\* lacks its last column: the pass ended with the error and a holds the one region.
C29_Witness ==
    /\ pc = "error"
    /\ Len(gtRows) = 2
    /\ gtRows[1][1] = <<"a">>
    /\ gtRows[2][1] = <<"a">>
    /\ Len(gtRows[2]) = 12
    /\ Len(regs) = 1
    /\ NSamples >= 1
    /\ \E p \in 1..NSamples : RegionsOf(SampleAt(p)) = <<1>>

----------------------------------------------------------------------------
(* Claims about Region, checked under SpecRegion. *)

\* C1: in every state reached through the Region mutators, right >= left and
\* bottom >= top.
C1_BoundsOrdered == region.right >= region.left /\ region.bottom >= region.top

\* C2: after every mutator the edge view and the centre/size view agree:
\* width = right - left, height = bottom - top, x = left + width // 2 and
\* y = top + height // 2.
C2_ViewsAgree ==
    /\ region.width = region.right - region.left
    /\ region.height = region.bottom - region.top
    /\ region.x = region.left + FloorHalf(region.width)
    /\ region.y = region.top + FloorHalf(region.height)

\* C12: a set_rect call with right < left or bottom < top raises "Invalid Input" and
\* leaves all eight stored values (and force_int) as they were; a call with
\* right >= left and bottom >= top does not raise.
C12_SetRectChecks ==
    [][call'.name = "set_rect"
       => IF call'.ordered
          THEN raised' = ""
          ELSE raised' = "Invalid Input" /\ region' = region]_vars

\* C12's case: set_rect with inverted arguments raised on a Region whose rectangle
\* is not the constructor's.
C12_Witness ==
    /\ call.name = "set_rect"
    /\ ~call.ordered
    /\ raised = "Invalid Input"
    /\ region.width = 3
    /\ region.left = -1

\* C20: set_xy with only x leaves y, height, top and bottom, and width, as they were;
\* set_xy with only y leaves x, width, left and right, and height, as they were; from
\* every Region state reached through the mutators.
C20_SetXYOtherAxisKept ==
    [][/\ \A x \in Coords :
            (call'.name = "other" /\ region' = set_xy(region, <<x>>, <<>>))
            => /\ region'.y = region.y
               /\ region'.height = region.height
               /\ region'.top = region.top
               /\ region'.bottom = region.bottom
               /\ region'.width = region.width
       /\ \A y \in CoordsY :
            (call'.name = "other" /\ region' = set_xy(region, <<>>, <<y>>))
            => /\ region'.x = region.x
               /\ region'.width = region.width
               /\ region'.left = region.left
               /\ region'.right = region.right
               /\ region'.height = region.height]_vars

----------------------------------------------------------------------------
(* Claims about DetectRegion, checked under SpecDetect. *)

\* C13: for every DetectRegion r, DetectRegion.decode(r.encode()) has the same left,
\* right, top, bottom, class_id, confidence and five flags as r (and encode leaves r
\* as it was).
C13_DetectRoundTrip ==
    [][back' # None /\ detRaised' = ""
       => /\ det' = det
          /\ \A f \in EncodedFields : back'[1][f] = det[f]]_vars

----------------------------------------------------------------------------
(* Claims about Region.clone, checked under SpecClone. *)

\* C14: clone() returns a Region whose left, right, top, bottom, x, y, width, height
\* and force_int equal the original's, whatever state the mutators left the original
\* in.
C14_CloneEqual ==
    /\ cloneRaised = ""
    /\ (cloneId # 0 /\ cloneSteps = 0) => rheap[cloneId] = rheap[1]

\* C15: after clone(), a mutator call through the original's reference leaves every
\* field of the clone as it was, and a call through the clone's reference leaves the
\* original as it was.
C15_CloneIndependent ==
    [][(cloneId # 0 /\ cloneSteps' = cloneSteps + 1)
       => /\ cloneRef' = "original" => rheap'[cloneId] = rheap[cloneId]
          /\ cloneRef' = "clone" => rheap'[1] = rheap[1]]_vars

\* C15's case: the original was given a bottom edge, cloned, and then given another
\* right edge: the clone kept the edges it was made with.
C15_Witness ==
    /\ cloneId = 2
    /\ cloneSteps = 1
    /\ cloneRef = "original"
    /\ rheap[1].right = 1
    /\ rheap[1].bottom = 1
    /\ rheap[2].right = 0
    /\ rheap[2].bottom = 1

----------------------------------------------------------------------------
(* Claims about Sample, checked under SpecSample. *)

\* C18: when the fetch inside load() fails, the exception is caught, and a Sample that
\* was not locally loaded when load() was called is not locally loaded when it returns:
\* nothing exists at its local image path (no other process having touched the storage
\* during the call).
C18_FailedLoadLeavesUnloaded ==
    (/\ sres.op = "load"
     /\ sres.value = "caught"
     /\ ~ld.was_loaded
     /\ ~ld.foreign)
    => (/\ ~is_locally_loaded(smp, storage)
        /\ local_image_path(smp) \notin DOMAIN storage)

\* C19: is_locally_loaded returns whether something exists at the path built from the
\* Sample's current set_index and key, whatever assignments, queries and storage
\* changes came before.
C19_ResidencyFollowsFields ==
    sres.op = "query" =>
        sres.value = (ImagePath(smp.set_index, smp.key) \in DOMAIN storage)

----------------------------------------------------------------------------
(* Claims about the set_rect, set_size, set_xy sequence, checked under         *)
(* SpecRederive.                                                               *)

\* A value in halves that is a whole number.
Whole(v) == v % 2 = 0

\* The distance of two values.
Dist(a, b) == IF a >= b THEN a - b ELSE b - a

\* C21: on a force_int Region, after set_rect with right >= left and bottom >= top the
\* width is right - left and the height is bottom - top (of the Region's edges, and of
\* the arguments when they are whole numbers); set_size(width, height) and then
\* set_xy(x, y) with the values that resulted leave width and height as they were and
\* move the centre by at most 1 unit (2 halves) in x and in y.
C21_RederiveKeepsSize ==
    /\ rd.stage = "rect" =>
            /\ region.width = region.right - region.left
            /\ region.height = region.bottom - region.top
            /\ (Whole(rd.args[1]) /\ Whole(rd.args[2])) => region.width = rd.args[2] - rd.args[1]
            /\ (Whole(rd.args[3]) /\ Whole(rd.args[4])) => region.height = rd.args[4] - rd.args[3]
    /\ rd.stage \in {"size", "xy"} =>
            /\ region.width = rd.rect.width
            /\ region.height = rd.rect.height
            /\ Dist(region.x, rd.rect.x) <= 2
            /\ Dist(region.y, rd.rect.y) <= 2

\* C21's case: after a mutator call, set_rect(-1, 0, 0, 0) gave the odd width 1, and
\* set_size and set_xy kept it while the edges they derived span 0.
C21_Witness ==
    /\ rd.stage = "xy"
    /\ rd.n = 1
    /\ rd.args = <<-2, 0, 0, 0>>
    /\ rd.rect.width = 2
    /\ region.width = 2
    /\ region.right - region.left = 0

\* C22: one call of expand_to_ratio with a positive aspect ratio on a force_int Region
\* of non-negative width and height changes at most one of width and height, decreases
\* neither, and leaves x and y as they were.
C22_ExpandGrowsOne ==
    (/\ rd.stage = "expanded"
     /\ rd.args[1] > 0
     /\ rd.before.force_int
     /\ rd.before.width >= 0
     /\ rd.before.height >= 0)
    => /\ region.width = rd.before.width \/ region.height = rd.before.height
       /\ region.width >= rd.before.width
       /\ region.height >= rd.before.height
       /\ region.x = rd.before.x
       /\ region.y = rd.before.y

\* C22's case: a Region of width 1 and height 1 centred at (1, -1), expanded to the
\* ratio 0.5: the width grew to 2, the height and the centre stayed.
C22_Witness ==
    /\ rd.stage = "expanded"
    /\ rd.args[1] = 1
    /\ rd.before.width = 2
    /\ rd.before.height = 2
    /\ rd.before.x = 2
    /\ rd.before.y = -2
    /\ region.width = 4
    /\ region.height = 2
    /\ region.x = 2
    /\ region.y = -2

----------------------------------------------------------------------------
(* Claims about the bulk download loop, checked under SpecDownload and         *)
(* SpecDownloadFair.                                                           *)

\* The threads started on the Sample at position p of the loaded list.
FetchesOf(p) == {t \in 1..Len(threads) : threads[t].target = p}

\* C25: at no time are more than max_threads worker threads alive.
C25_WorkersBounded == Cardinality(AliveWorkers(threads)) <= max_threads

\* C25's case: max_threads workers are alive and the main thread, with a Sample
\* still to fetch, sleeps.
C25_Witness ==
    /\ max_threads = 2
    /\ Cardinality(AliveWorkers(threads)) = 2
    /\ mainpc = "sleep"
    /\ cursor < Len(unloaded_samples)

\* C26: a Sample that was locally loaded when the set was read is never fetched, a
\* Sample that was not gets at most one fetch, and exactly one by the time the loop has
\* ended; no Sample is the target of two live fetches.
C26_OneFetchEach ==
    \A p \in 1..Len(resident) :
        /\ resident[p] => FetchesOf(p) = {}
        /\ Cardinality(FetchesOf(p)) <= 1
        /\ (mainpc = "done" /\ ~resident[p]) => Cardinality(FetchesOf(p)) = 1
        /\ Cardinality(FetchesOf(p) \cap AliveWorkers(threads)) <= 1

\* C26's case: of three Samples the second was locally loaded; the loop ended with one
\* fetch for the first and one for the third.
C26_Witness ==
    /\ mainpc = "done"
    /\ resident = <<FALSE, TRUE, FALSE>>
    /\ Len(threads) = 2
    /\ threads[1].target = 1
    /\ threads[2].target = 3

\* C27: if every fetch started finishes, the loop ends having started a fetch for
\* every Sample that was not locally loaded, whichever fetches failed.
C27_LoopEnds ==
    <>(/\ mainpc = "done"
       /\ \A p \in 1..Len(resident) : ~resident[p] => FetchesOf(p) # {})

\* C27's case: with one worker at a time, the first fetch failed, the second was
\* started after it and completed, and the loop ended.
C27_Witness ==
    /\ mainpc = "done"
    /\ max_threads = 1
    /\ Len(threads) = 2
    /\ threads[1].state = "caught"
    /\ threads[2].state = "complete"

----------------------------------------------------------------------------
(* Claims about check_and_load, checked under SpecCheckLoad. *)

\* The last answer given.
LastAnswer == cl.answers[Len(cl.answers)]

\* C30 as stated: when the file does not exist at the call, check_and_load never
\* returns normally, its prompt loop is left only on the answer n, an answer y fetches
\* the file and prompts again, and every execution that ends ends with the 'File not
\* found' error; when the file exists it returns at once without a prompt.
C30_EndsWithFileNotFound ==
    /\ [](cl.pc = "end" /\ cl.existed => cl.result = "returned" /\ cl.answers = <<>>)
    /\ [](cl.pc = "end" /\ ~cl.existed => cl.result = "File not found")
    /\ [](cl.pc = "end" /\ cl.answers # <<>> => LastAnswer = "n")
    /\ [][(cl.pc = "prompt" /\ cl'.answers = Append(cl.answers, "y"))
          => cl'.pc = "prompt" /\ cl'.exists]_vars

\* C30 as amended: when the file does not exist at the call, check_and_load never
\* returns normally; its prompt loop is left on the answer n, by the exception of a
\* fetch that failed after the answer y, or by the exception of input(); an answer y
\* whose fetch completes prompts again; an execution that ends ends with the 'File not
\* found' error (at once without a remote_url, else after the answer n, even when a
\* fetch has completed and the file exists), with the fetch's error or with input()'s;
\* when the file exists it returns at once without a prompt.
C30_NeverReturnsWhenMissing ==
    /\ [](cl.pc = "end" /\ cl.existed => cl.result = "returned" /\ cl.answers = <<>>)
    /\ [](cl.pc = "end" /\ ~cl.existed =>
            /\ cl.result \in {"File not found", "download error", "EOFError"}
            /\ cl.result = "File not found" =>
                    IF cl.remote_url = None THEN cl.answers = <<>> ELSE LastAnswer = "n"
            /\ cl.result = "download error" => LastAnswer = "y")
    /\ [](cl.pc = "end" /\ cl.answers # <<>> /\ LastAnswer = "n" => cl.result = "File not found")
    /\ [][(cl.pc = "prompt" /\ cl'.answers = Append(cl.answers, "y"))
          => \/ cl'.pc = "prompt" /\ cl'.exists
             \/ cl'.pc = "end" /\ cl'.result = "download error"]_vars

\* C30's case: the file was missing, the answer y fetched it, the answer n then ended
\* the call with 'File not found' although the file exists.
C30_Witness ==
    /\ cl.pc = "end"
    /\ ~cl.existed
    /\ cl.exists
    /\ cl.answers = <<"y", "n">>
    /\ cl.result = "File not found"

====
